---------------------------- MODULE Spec2Model ----------------------------
(***************************************************************************)
(* Balloon Shield (rise-up): the simulation core.                          *)
(*   src/lib/game-engine.ts       GameEngine                               *)
(*   src/lib/collision-system.ts  CollisionSystem                          *)
(*   src/unnamed/part_001         PatternSystem and the shared types       *)
(*   src/unnamed/part_000         BalloonShieldGame (the host component)   *)
(*                                                                         *)
(* JavaScript numbers are modelled in fixed point:                         *)
(*   lengths     in 1/PX  pixel          (PX = 100)                        *)
(*   velocities  in 1/VU  pixel/second   (VU = 12000)                      *)
(*   times       in 1/TU  second         (TU = 240; one physics step = 2)  *)
(*   Math.random() in 1/1000             (a draw m stands for m/1000)      *)
(* Quotients are rounded to the nearest unit (RDiv); Math.floor is \div.   *)
(***************************************************************************)
EXTENDS Integers, Sequences, FiniteSets, TLC

VARIABLES
    \* ---- GameEngine (game-engine.ts 25-57) ----
    gameState,      \* 'menu' | 'playing' | 'paused' | 'gameOver'
    score,          \* in 1/1000 score units (= canvas.height - balloon.y in 1/PX px)
    gameTime,       \* elapsed play time, 1/TU s
    cameraY,        \* 1/PX px
    balloon,        \* [x, y, vx, vy, vyErr, radius, driftOffset]
    shield,         \* [x, y, vx, vy, nan, radius, tx, ty, tnan, lastHitTime]
    obstacles,      \* sequence of obstacle records
    accumulator,    \* 1/TU s
    animationId,    \* the loop whose frame request was issued last (0: none)
    rafPending,     \* loops with a frame request pending
    mouse,          \* worldMousePosition [x, y]
    keys,           \* set of held key codes
    settings,       \* [sensitivity (a Num in 1/10), shieldSize, debugMode]
    clock,          \* [elapsed: performance.now() - lastTime, idle: the part of
                    \*  it that passed while the game was not playing], 1/TU s
    \* ---- PatternSystem (part_001 4-8) ----
    spawnTimer,     \* 1/(TU * SU) s
    spawnCooldown,  \* 1/(TU * SU) s
    lastSpawnY,     \* 1/PX px
    patternHistory, \* sequence of pattern names
    \* ---- observation of the run (not program state) ----
    notes,          \* state-changed notifications delivered by the last step
    scoreNotes,     \* number of score-changed notifications in the last step
    prevState,      \* gameState before the last step
    gameOverCount,  \* state-changed('gameOver') deliveries since the last startGame
    lastOp,         \* name of the last operation
    tickLog,        \* what the last physics tick did
    spawnLog,       \* what the last PatternSystem.update that fired did
    spawned,        \* the obstacles it returned
    execTrail,      \* names executed since the last reset (the last TrailLen)
    spawnedAt,      \* gameTime of the run's last spawn (-1: none yet)
    probe,          \* the arguments and the result of the last direct call
    stopped,        \* stop() has returned and start() was not called since
    rng,            \* the draws Math.random() is returning
    calls,          \* operations performed so far (bounds the exploration)
    \* ---- BalloonShieldGame (part_000 7-13) ----
    host            \* the component's state: [gameState, score, bestScore], what
                    \* its settings panel chose last, and whether the
                    \* engine-initialisation effect is due

engineVars ==
    <<gameState, score, gameTime, cameraY, balloon, shield, obstacles,
      accumulator, animationId, rafPending, mouse, keys, settings, clock>>
patternVars == <<spawnTimer, spawnCooldown, lastSpawnY, patternHistory>>
obsVars ==
    <<notes, scoreNotes, prevState, gameOverCount, lastOp, tickLog, spawnLog,
      spawned, execTrail, spawnedAt, probe, stopped, rng, calls, host>>
vars == <<engineVars, patternVars, obsVars>>

---------------------------------------------------------------------------
(* Units and arithmetic *)

PX == 100
VU == 12000
TU == 240

Abs(a) == IF a < 0 THEN -a ELSE a
Min(a, b) == IF a <= b THEN a ELSE b
Max(a, b) == IF a >= b THEN a ELSE b
Sign(a) == IF a > 0 THEN 1 ELSE IF a < 0 THEN -1 ELSE 0

(* A JavaScript number that may be NaN: [nan, v], v the value when nan is
   FALSE.  Math.min and Math.max return NaN when an argument is NaN. *)
Num(v) == [nan |-> FALSE, v |-> v]
NaN == [nan |-> TRUE, v |-> 0]
jsMin(a, b) == IF a.nan \/ b.nan THEN NaN ELSE Num(Min(a.v, b.v))
jsMax(a, b) == IF a.nan \/ b.nan THEN NaN ELSE Num(Max(a.v, b.v))

\* a / b rounded to the nearest integer (b > 0)
RDiv(a, b) == (2 * a + b) \div (2 * b)

\* Math.sqrt, rounded down
RECURSIVE SqrtSearch(_, _, _)
SqrtSearch(n, lo, hi) ==
    IF lo >= hi THEN lo
    ELSE LET mid == (lo + hi + 1) \div 2
         IN  IF mid * mid <= n THEN SqrtSearch(n, mid, hi)
             ELSE SqrtSearch(n, lo, mid - 1)
ISqrt(n) == SqrtSearch(n, 0, Min(n, 46340))

\* 1000 * sin of an angle given in tenths of a degree (Bhaskara's formula)
SinMilli(deg10) ==
    LET a == deg10 % 3600
        h == IF a <= 1800 THEN a ELSE a - 1800
        p == (h * (1800 - h)) \div 100
        v == (4000 * p) \div (40500 - p)
    IN  IF a <= 1800 THEN v ELSE -v
CosMilli(deg10) == SinMilli(deg10 + 900)

---------------------------------------------------------------------------
(* Math.random: the i-th call made by one operation reads a tape of draws *)

Rand(tape, i) == tape[((i - 1) % Len(tape)) + 1]

---------------------------------------------------------------------------
(* CollisionSystem *)

NoHit == [hit |-> FALSE, penetration |-> 0, nx |-> 0, ny |-> 0, px |-> 0, py |-> 0]

\* the test of line 28 with < for <=
circleVsCircleStrict(x1, y1, r1, x2, y2, r2) ==
    LET dx == x2 - x1
        dy == y2 - y1
        radiusSum == r1 + r2
        distanceSquared == dx * dx + dy * dy
    IN  IF distanceSquared < radiusSum * radiusSum
        THEN [hit |-> TRUE, penetration |-> radiusSum - ISqrt(distanceSquared),
              nx |-> 1000, ny |-> 0, px |-> x1, py |-> y1]
        ELSE NoHit

\* normals are unit vectors in 1/1000
circleVsCircle(x1, y1, r1, x2, y2, r2) ==
    LET dx == x2 - x1
        dy == y2 - y1
        radiusSum == r1 + r2
    IN  \* |dx| > radiusSum or |dy| > radiusSum already decides the test of
        \* line 28; deciding it first keeps the squares within the integers
        IF Abs(dx) > radiusSum \/ Abs(dy) > radiusSum THEN NoHit
        ELSE LET distanceSquared == dx * dx + dy * dy
                 radiusSumSquared == radiusSum * radiusSum
             IN  IF distanceSquared <= radiusSumSquared
                 THEN LET distance == ISqrt(distanceSquared)
                          penetration == radiusSum - distance
                      IN  IF distance = 0
                          THEN [hit |-> TRUE, penetration |-> penetration,
                                nx |-> 1000, ny |-> 0, px |-> x1, py |-> y1]
                          ELSE LET normalX == RDiv(1000 * dx, distance)
                                   normalY == RDiv(1000 * dy, distance)
                               IN  [hit |-> TRUE, penetration |-> penetration,
                                    nx |-> normalX, ny |-> normalY,
                                    px |-> x1 + RDiv(normalX * r1, 1000),
                                    py |-> y1 + RDiv(normalY * r1, 1000)]
                 ELSE NoHit

\* the centre-inside branch measuring from the rectangle's centre line, so
\* that a centre on an edge is given the depth of half the rectangle
circleVsAABBFromMiddle(cx, cy, r, ax, ay, aw, ah) ==
    LET closestX == Max(ax, Min(cx, ax + aw))
        closestY == Max(ay, Min(cy, ay + ah))
        dx == cx - closestX
        dy == cy - closestY
    IN  IF dx = 0 /\ dy = 0
        THEN IF 2 * (cx - ax) <= aw
             THEN [hit |-> TRUE, penetration |-> r + aw \div 2,
                   nx |-> -1000, ny |-> 0, px |-> ax, py |-> cy]
             ELSE [hit |-> TRUE, penetration |-> r + aw \div 2,
                   nx |-> 1000, ny |-> 0, px |-> ax + aw, py |-> cy]
        ELSE IF dx * dx + dy * dy <= r * r
        THEN [hit |-> TRUE, penetration |-> r - ISqrt(dx * dx + dy * dy),
              nx |-> RDiv(1000 * dx, Max(1, ISqrt(dx * dx + dy * dy))),
              ny |-> RDiv(1000 * dy, Max(1, ISqrt(dx * dx + dy * dy))),
              px |-> closestX, py |-> closestY]
        ELSE NoHit

\* the test reduced to its centre-inside branch: the radius is not looked at
circleVsAABBCentreOnly(cx, cy, r, ax, ay, aw, ah) ==
    IF ax <= cx /\ cx <= ax + aw /\ ay <= cy /\ cy <= ay + ah
    THEN [hit |-> TRUE, penetration |-> r + (cx - ax),
          nx |-> -1000, ny |-> 0, px |-> ax, py |-> cy]
    ELSE NoHit

circleVsAABB(cx, cy, r, ax, ay, aw, ah) ==
    LET closestX == Max(ax, Min(cx, ax + aw))
        closestY == Max(ay, Min(cy, ay + ah))
        dx == cx - closestX
        dy == cy - closestY
    IN  IF Abs(dx) > r \/ Abs(dy) > r THEN NoHit
        ELSE LET distanceSquared == dx * dx + dy * dy
             IN  IF distanceSquared <= r * r
                 THEN LET distance == ISqrt(distanceSquared)
                          penetration == r - distance
                      IN  IF distance = 0
                          THEN LET leftDist == cx - ax
                                   rightDist == (ax + aw) - cx
                                   topDist == cy - ay
                                   bottomDist == (ay + ah) - cy
                                   minDist == Min(Min(leftDist, rightDist),
                                                  Min(topDist, bottomDist))
                               IN  IF minDist = leftDist
                                   THEN [hit |-> TRUE, penetration |-> r + leftDist,
                                         nx |-> -1000, ny |-> 0, px |-> ax, py |-> cy]
                                   ELSE IF minDist = rightDist
                                   THEN [hit |-> TRUE, penetration |-> r + rightDist,
                                         nx |-> 1000, ny |-> 0, px |-> ax + aw, py |-> cy]
                                   ELSE IF minDist = topDist
                                   THEN [hit |-> TRUE, penetration |-> r + topDist,
                                         nx |-> 0, ny |-> -1000, px |-> cx, py |-> ay]
                                   ELSE [hit |-> TRUE, penetration |-> r + bottomDist,
                                         nx |-> 0, ny |-> 1000, px |-> cx, py |-> ay + ah]
                          ELSE [hit |-> TRUE, penetration |-> penetration,
                                nx |-> RDiv(1000 * dx, distance),
                                ny |-> RDiv(1000 * dy, distance),
                                px |-> closestX, py |-> closestY]
                 ELSE NoHit

\* obj1 is the balloon or the shield, obj2 an obstacle
checkCollision(obj1, obj2) ==
    IF obj2.type = "block" \/ obj2.type = "sweeper"
    THEN circleVsAABB(obj1.x, obj1.y, obj1.radius,
                      obj2.x - obj2.width \div 2, obj2.y - obj2.height \div 2,
                      obj2.width, obj2.height)
    ELSE circleVsCircle(obj1.x, obj1.y, obj1.radius, obj2.x, obj2.y, obj2.radius)

---------------------------------------------------------------------------
(* Obstacles (part_001 386-398).  width = 0, rotationSpeed = 0 stand for an
   absent field (the code reads both through `||` or a truthiness test);
   hasLife / hasOrig say whether lifeTime / originalPosition are defined.
   sx, sy and spin are no fields of the code's object: they keep the position
   and the rotation speed the obstacle was created with. *)

Obstacle(type, x, y, vx, vy, radius, width, height, anchored) ==
    [type |-> type, x |-> x, y |-> y, vx |-> vx, vy |-> vy, radius |-> radius,
     width |-> width, height |-> height, active |-> TRUE, anchored |-> anchored,
     angle |-> 0, rotationSpeed |-> 0, hasLife |-> FALSE, lifeTime |-> 0,
     hasOrig |-> FALSE, ox |-> 0, oy |-> 0, sx |-> x, sy |-> y, spin |-> 0]

---------------------------------------------------------------------------
(* PatternSystem *)

\* difficulty = min(1, gameTime / 180) is kept as its numerator over DiffDen
DiffDen == 180 * TU

\* spawnTimer and spawnCooldown are kept in 1/(TU * SU) s, the unit in which
\* 1.2 - difficulty * 0.65 is a whole number for every elapsed time
SU == 18000

\* weights in 1/10
Patterns ==
    << [name |-> "blockRain",     weight |-> 30, minAltitude |-> 0],
       [name |-> "chicane",       weight |-> 20, minAltitude |-> 50],
       [name |-> "spikeGauntlet", weight |-> 20, minAltitude |-> 100],
       [name |-> "rotor",         weight |-> 15, minAltitude |-> 150],
       [name |-> "sweeper",       weight |-> 15, minAltitude |-> 100],
       [name |-> "shardBurst",    weight |-> 10, minAltitude |-> 200],
       [name |-> "gridDrop",      weight |-> 20, minAltitude |-> 75] >>

PatternNames == {Patterns[i].name : i \in 1..Len(Patterns)}

RECURSIVE SumWeights(_, _)
SumWeights(pats, i) ==
    IF i > Len(pats) THEN 0 ELSE pats[i].weight + SumWeights(pats, i + 1)

\* `random` is in 1/1000 of a weight unit
RECURSIVE WeightedScan(_, _, _)
WeightedScan(pats, i, random) ==
    IF i > Len(pats) THEN pats[Len(pats)]
    ELSE LET rest == random - 1000 * pats[i].weight
         IN  IF rest <= 0 THEN pats[i] ELSE WeightedScan(pats, i + 1, rest)

selectWeightedPattern(pats, draw) ==
    LET totalWeight == SumWeights(pats, 1)
    IN  WeightedScan(pats, 1, draw * totalWeight)

\* ---- formation builders: (params, tape, i) with i the index of the first
\* ---- Math.random() call the builder makes

RECURSIVE BlockRainX(_, _, _, _, _)
BlockRainX(tape, i, attempts, lo, hi) ==
    LET x == 70 * Rand(tape, i) + 50 * PX
        a == attempts + 1
    IN  IF a < 10 /\ x > lo /\ x < hi
        THEN BlockRainX(tape, i + 1, a, lo, hi)
        ELSE [x |-> x, next |-> i + 1]

RECURSIVE BlockRainLoop(_, _, _, _, _, _, _)
BlockRainLoop(params, tape, i, k, blockCount, lo, hi) ==
    IF k >= blockCount THEN << >>
    ELSE LET pick == BlockRainX(tape, i, 0, lo, hi)
             j == pick.next
             o == Obstacle("block", pick.x,
                           params.spawnY - 10 * Rand(tape, j),
                           0, 360 * Rand(tape, j + 1) + 20 * VU,
                           20 * PX, 40 * PX, 40 * PX, FALSE)
         IN  <<o>> \o BlockRainLoop(params, tape, j + 2, k + 1, blockCount, lo, hi)

spawnBlockRain(params, tape, i) ==
    LET blockCount == 2 + (3 * params.difficulty) \div DiffDen
        minGap == (params.shieldRadius * 24) \div 10 + 20 * PX
        safeX == params.centerX - minGap \div 2
    IN  BlockRainLoop(params, tape, i, 0, blockCount,
                      safeX - 40 * PX, safeX + minGap + 40 * PX)

\* spawnChicane with the right wall pushed whatever the side
spawnChicaneBothWalls(params, tape, i) ==
    LET side == IF Rand(tape, i) < 500 THEN -1 ELSE 1
        left == IF side = 1
                THEN << Obstacle("block", 50 * PX, params.spawnY, 0, 0,
                                 25 * PX, 100 * PX, 50 * PX, TRUE) >>
                ELSE << >>
        right == << Obstacle("block", 750 * PX, params.spawnY, 0, 0,
                             25 * PX, 100 * PX, 50 * PX, TRUE) >>
    IN  left \o right

spawnChicane(params, tape, i) ==
    LET side == IF Rand(tape, i) < 500 THEN -1 ELSE 1
        left == IF side = 1
                THEN << Obstacle("block", 50 * PX, params.spawnY, 0, 0,
                                 25 * PX, 100 * PX, 50 * PX, TRUE) >>
                ELSE << >>
        right == IF side = -1
                 THEN << Obstacle("block", 750 * PX, params.spawnY, 0, 0,
                                  25 * PX, 100 * PX, 50 * PX, TRUE) >>
                 ELSE << >>
    IN  left \o right

RECURSIVE SpikeLoop(_, _, _, _, _, _)
SpikeLoop(params, tape, i, k, spikeCount, minGap) ==
    IF k >= spikeCount THEN << >>
    ELSE LET angle == (36 * Rand(tape, i)) \div 10
             x == 100 * PX + 60 * Rand(tape, i + 1)
         IN  IF 2 * Abs(x - params.centerX) > minGap
             THEN LET o == [Obstacle("spike", x, params.spawnY - k * 60 * PX, 0, 0,
                                     25 * PX, 0, 0, Rand(tape, i + 2) < 700)
                            EXCEPT !.angle = angle]
                  IN  <<o>> \o SpikeLoop(params, tape, i + 3, k + 1, spikeCount, minGap)
             ELSE SpikeLoop(params, tape, i + 2, k + 1, spikeCount, minGap)

spawnSpikeGauntlet(params, tape, i) ==
    LET spikeCount == 3 + (2 * params.difficulty) \div DiffDen
        minGap == (params.shieldRadius * 24) \div 10 + 15 * PX
    IN  SpikeLoop(params, tape, i, 0, spikeCount, minGap)

\* rotationSpeed in 1/1000 rad/s
spawnRotor(params, tape, i) ==
    LET rotorX == params.centerX + 20 * (Rand(tape, i) - 500)
        rotationSpeed == 4 * (Rand(tape, i + 1) - 500) + 2000
    IN  << [Obstacle("rotor", rotorX, params.spawnY, 0, 0, 80 * PX, 0, 0, TRUE)
            EXCEPT !.rotationSpeed = rotationSpeed, !.spin = rotationSpeed] >>

spawnSweeper(params, tape, i) ==
    LET direction == IF Rand(tape, i) < 500 THEN -1 ELSE 1
        startX == IF direction = 1 THEN -50 * PX ELSE 850 * PX
        speed == 150 * VU + RDiv(((50 * VU) \div TU) * params.difficulty, 180)
    IN  << Obstacle("sweeper", startX, params.spawnY, direction * speed, 0,
                    15 * PX, 200 * PX, 30 * PX, FALSE) >>

RECURSIVE ShardLoop(_, _, _, _, _, _)
ShardLoop(params, tape, i, k, shardCount, cx) ==
    IF k >= shardCount THEN << >>
    ELSE LET angle == (3600 * k) \div shardCount
             speed == 100 * VU + ((50 * VU) \div 1000) * Rand(tape, i)
             o == [Obstacle("shard", cx, params.spawnY,
                            (CosMilli(angle) * (speed \div 1000)),
                            (SinMilli(angle) * (speed \div 1000)) + 50 * VU,
                            8 * PX, 0, 0, FALSE)
                   EXCEPT !.hasLife = TRUE,
                          !.lifeTime = 3 * TU + RDiv(2 * TU * Rand(tape, i + 1), 1000)]
         IN  <<o>> \o ShardLoop(params, tape, i + 2, k + 1, shardCount, cx)

spawnShardBurst(params, tape, i) ==
    LET shardCount == 8 + (4 * params.difficulty) \div DiffDen
        cx == params.centerX + 20 * (Rand(tape, i) - 500)
    IN  ShardLoop(params, tape, i + 1, 0, shardCount, cx)

RECURSIVE GridBlocks(_, _, _, _, _, _)
GridBlocks(params, tape, i, k, blockCount, x) ==
    IF k >= blockCount THEN << >>
    ELSE LET o == Obstacle("block",
                           x + 4 * (Rand(tape, i) - 500),
                           params.spawnY - k * 80 * PX - 5 * Rand(tape, i + 1),
                           0, 30 * VU + ((20 * VU) \div 1000) * Rand(tape, i + 2),
                           20 * PX, 40 * PX, 40 * PX, FALSE)
         IN  <<o>> \o GridBlocks(params, tape, i + 3, k + 1, blockCount, x)

RECURSIVE GridColumns(_, _, _, _, _)
GridColumns(params, tape, i, col, safeColumn) ==
    IF col >= 4 THEN << >>
    ELSE IF col = safeColumn THEN GridColumns(params, tape, i, col + 1, safeColumn)
    ELSE LET columnWidth == (800 * PX) \div 4
             x == col * columnWidth + columnWidth \div 2
             blockCount == (2000 + 3 * Rand(tape, i)) \div 1000
         IN  GridBlocks(params, tape, i + 1, 0, blockCount, x)
             \o GridColumns(params, tape, i + 1 + 3 * blockCount, col + 1, safeColumn)

\* spawnGridDrop without the `continue` of the safe column
spawnGridDropNoSafe(params, tape, i) ==
    GridColumns(params, tape, i + 1, 0, 4)

spawnGridDrop(params, tape, i) ==
    LET safeColumn == (4 * Rand(tape, i)) \div 1000
    IN  GridColumns(params, tape, i + 1, 0, safeColumn)

PatternSpawn(name, params, tape, i) ==
    CASE name = "blockRain"     -> spawnBlockRain(params, tape, i)
      [] name = "chicane"       -> spawnChicane(params, tape, i)
      [] name = "spikeGauntlet" -> spawnSpikeGauntlet(params, tape, i)
      [] name = "rotor"         -> spawnRotor(params, tape, i)
      [] name = "sweeper"       -> spawnSweeper(params, tape, i)
      [] name = "shardBurst"    -> spawnShardBurst(params, tape, i)
      [] OTHER                  -> spawnGridDrop(params, tape, i)


\* p.minAltitude <= Math.abs(params.spawnY) / 10
\* the filter left out: every pattern counts as unlocked
allPatterns(spawnY) == Patterns

availablePatterns(spawnY) ==
    LET unlocked(p) == p.minAltitude * 10 * PX <= Abs(spawnY)
    IN  SelectSeq(Patterns, unlocked)

\* the test made one spawn later
shouldRetryAfterFour(history, name) ==
    /\ Len(history) >= 4
    /\ \A k \in (Len(history) - 1)..Len(history) : history[k] = name

\* the anti-repetition test of spawnPattern
shouldRetry(history, name) ==
    /\ Len(history) >= 3
    /\ \A k \in (Len(history) - 1)..Len(history) : history[k] = name

alternativesTo(available, name) ==
    LET other(p) == p.name # name
    IN  SelectSeq(available, other)

\* the push without the shift
pushHistoryUnbounded(history, name) == Append(history, name)

\* patternHistory after executePattern pushed `name`
pushHistory(history, name) ==
    LET h == Append(history, name)
    IN  IF Len(h) > 5 THEN Tail(h) ELSE h

NoSpawnLog ==
    [fired |-> FALSE, name |-> "none", minAltitude |-> 0, spawnY |-> 0,
     firstPick |-> "none", retried |-> FALSE, avail |-> {}, trailBefore |-> << >>,
     historyBefore |-> << >>, centerX |-> 0, shieldRadius |-> 0]

\* spawnPattern followed by executePattern: the new history, lastSpawnY, the
\* obstacles returned, and the record of what was chosen
spawnPattern(history, lastY, params, tape) ==
    LET available == availablePatterns(params.spawnY)
        names == {available[k].name : k \in 1..Len(available)}
    IN  IF Len(available) = 0
        THEN [patternHistory |-> history, lastSpawnY |-> lastY, obstacles |-> << >>,
              log |-> [NoSpawnLog EXCEPT !.fired = TRUE, !.spawnY = params.spawnY]]
        ELSE LET pattern == selectWeightedPattern(available, Rand(tape, 1))
                 alternatives == alternativesTo(available, pattern.name)
                 retry == shouldRetry(history, pattern.name) /\ Len(alternatives) > 0
                 chosen == IF retry
                           THEN selectWeightedPattern(alternatives, Rand(tape, 2))
                           ELSE pattern
                 first == IF retry THEN 3 ELSE 2
             IN  [patternHistory |-> pushHistory(history, chosen.name),
                  lastSpawnY |-> params.spawnY,
                  obstacles |-> PatternSpawn(chosen.name, params, tape, first),
                  log |-> [fired |-> TRUE, name |-> chosen.name,
                           minAltitude |-> chosen.minAltitude,
                           spawnY |-> params.spawnY,
                           firstPick |-> pattern.name, retried |-> retry,
                           avail |-> names, trailBefore |-> << >>,
                           historyBefore |-> history, centerX |-> params.centerX,
                           shieldRadius |-> params.shieldRadius]]

\* update with the cooldown left at 1.2 s whatever the difficulty
updateFixedCooldown(st, dt, params, tape) ==
    LET timer == st.spawnTimer - dt * SU
    IN  IF timer <= 0
        THEN LET cooldown == (12 * TU * SU) \div 10
                 sp == spawnPattern(st.patternHistory, st.lastSpawnY, params, tape)
             IN  [spawnTimer |-> cooldown, spawnCooldown |-> cooldown,
                  lastSpawnY |-> sp.lastSpawnY, patternHistory |-> sp.patternHistory,
                  obstacles |-> sp.obstacles, log |-> sp.log]
        ELSE [spawnTimer |-> timer, spawnCooldown |-> st.spawnCooldown,
              lastSpawnY |-> st.lastSpawnY, patternHistory |-> st.patternHistory,
              obstacles |-> << >>, log |-> NoSpawnLog]

\* PatternSystem.update on the generator state st
update(st, dt, params, tape) ==
    LET timer == st.spawnTimer - dt * SU
    IN  IF timer <= 0
        THEN LET cooldown == Max((55 * TU * SU) \div 100,
                                 (12 * TU * SU) \div 10
                                   - (((65 * SU) \div 100) * params.difficulty)
                                       \div (DiffDen \div TU))
                 sp == spawnPattern(st.patternHistory, st.lastSpawnY, params, tape)
             IN  [spawnTimer |-> cooldown, spawnCooldown |-> cooldown,
                  lastSpawnY |-> sp.lastSpawnY, patternHistory |-> sp.patternHistory,
                  obstacles |-> sp.obstacles, log |-> sp.log]
        ELSE [spawnTimer |-> timer, spawnCooldown |-> st.spawnCooldown,
              lastSpawnY |-> st.lastSpawnY, patternHistory |-> st.patternHistory,
              obstacles |-> << >>, log |-> NoSpawnLog]

\* PatternSystem.reset
resetPatterns ==
    [spawnTimer |-> 0, spawnCooldown |-> (12 * TU * SU) \div 10, lastSpawnY |-> 0,
     patternHistory |-> << >>]

---------------------------------------------------------------------------
(* GameEngine: constants *)

\* the canvas the host component creates (part_000 106-107), in pixels
CanvasWidth == 1920
CanvasHeight == 1080

canvasW == CanvasWidth * PX
canvasH == CanvasHeight * PX

physicsStep == TU \div 120
BALLOON_BASE_VELOCITY == 80
BALLOON_ACCELERATION == 4
BALLOON_MAX_VELOCITY == 160
CAMERA_DEAD_ZONE == 100
keyboardSpeed == 300

\* a velocity of v (1/VU px/s) moves a body by v/MoveDiv (1/PX px) per step
MoveDiv == (VU * 120) \div PX

getShieldRadius(size) ==
    CASE size = "small" -> 36 * PX
      [] size = "large" -> 48 * PX
      [] OTHER -> 42 * PX

\* masses in 1/10
getObstacleMass(type) ==
    CASE type = "block" -> 6
      [] type = "rotor" -> 30
      [] type = "shard" -> 2
      [] type = "spike" -> 10
      [] type = "sweeper" -> 20
      [] OTHER -> 10

\* the objects initializeGameObjects creates and resetGame restores
newBalloon ==
    [x |-> canvasW \div 2, y |-> canvasH - 100 * PX,
     vx |-> 0, vy |-> -BALLOON_BASE_VELOCITY * VU, vyErr |-> 0,
     radius |-> 22 * PX, driftOffset |-> 0]

\* shield velocity is kept in 1/PX px per physics step.  nan: position and
\* velocity are NaN; tnan: targetPosition is NaN (x, y, vx, vy, tx, ty are 0 then)
newShield(radius) ==
    [x |-> canvasW \div 2, y |-> canvasH - 150 * PX, vx |-> 0, vy |-> 0,
     nan |-> FALSE,
     radius |-> radius, tx |-> canvasW \div 2, ty |-> canvasH - 150 * PX,
     tnan |-> FALSE,
     lastHitTime |-> 0]

---------------------------------------------------------------------------
(* GameEngine: one physics tick, step by step *)

\* updateInput: keyboardDelta <<x, y>>
keyboardDelta(held) ==
    LET step == (keyboardSpeed * PX) \div 120
    IN  << (IF "KeyA" \in held THEN -step ELSE 0) + (IF "KeyD" \in held THEN step ELSE 0),
           (IF "KeyW" \in held THEN -step ELSE 0) + (IF "KeyS" \in held THEN step ELSE 0) >>

\* updateInput: the shield target <<tx, ty>> (sensitivity a Num in 1/10)
inputTarget(sh, mousePos, held, sensitivity) ==
    LET mx == RDiv(mousePos.x * sensitivity.v, 10)
        my == RDiv(mousePos.y * sensitivity.v, 10)
        k == keyboardDelta(held)
    IN  IF k # <<0, 0>> THEN <<sh.x + k[1], sh.y + k[2]>> ELSE <<mx, my>>

\* the target is NaN: the pointer times a NaN sensitivity, or a NaN position
\* plus the keyboard delta; the clamp (Math.max of Math.min) keeps a NaN
targetIsNaN(sh, held, sensitivity) ==
    IF keyboardDelta(held) # <<0, 0>> THEN sh.nan ELSE sensitivity.nan

clampTarget(t, radius, camY) ==
    << Max(radius, Min(canvasW - radius, t[1])),
       Max(radius + camY, Min(canvasH + camY - radius, t[2])) >>

updateInput(sh, mousePos, held, sensitivity, camY) ==
    LET t == clampTarget(inputTarget(sh, mousePos, held, sensitivity), sh.radius, camY)
    IN  IF targetIsNaN(sh, held, sensitivity)
        THEN [sh EXCEPT !.tx = 0, !.ty = 0, !.tnan = TRUE]
        ELSE [sh EXCEPT !.tx = t[1], !.ty = t[2], !.tnan = FALSE]

\* the speed limit of updateBalloon at elapsed time t
maxSpeed(t) ==
    Min(BALLOON_MAX_VELOCITY * VU,
        BALLOON_BASE_VELOCITY * VU + ((BALLOON_ACCELERATION * VU) \div TU) * t)

(* velocity.y is an IEEE-754 double.  It is kept as vy / VU px/s, which the
   repeated subtraction of acceleration * dt would give in exact arithmetic,
   plus vyErr units of 1 / (30 * 2^57) px/s, which its rounding leaves. *)
\* 2^e modulo 30, for e >= 1: the powers of two run through 2, 4, 8, 16
Pow2Mod30(e) == <<2, 4, 8, 16>>[((e - 1) % 4) + 1]

\* acceleration * dt as a double, less 1/30: dt = 1/120 rounds to a multiple of 2^-59
accelStepErr ==
    LET r == Pow2Mod30(57)
    IN  IF 2 * r < 30 THEN -r ELSE 30 - r

\* doubles are 2^-46 apart below 128 and 2^-45 apart from 128 on: 30 * 2^p units
ulpExp(speed, err) ==
    IF speed < 128 * VU \/ (speed = 128 * VU /\ err < 0) THEN 11 ELSE 12

\* round to nearest, ties to even: the error of speed + err once it is a double
roundErr(speed, err) ==
    LET p == ulpExp(speed, err)
        g == 30 * 2^p
        k == speed \div (VU \div 30)
        base == 2^p * ((k * Pow2Mod30(57 - p)) % 30)
        base2 == 2^(p + 1) * ((k * Pow2Mod30(56 - p)) % 30)
        r == (base + err) % g
        odd == ((base2 + err - r) % (2 * g)) # 0
    IN  IF 2 * r < g THEN err - r
        ELSE IF 2 * r > g \/ odd THEN err - r + g
        ELSE err - r

\* currentSpeed < maxSpeed, on the doubles
speedBelow(vy, vyErr, limit) ==
    Abs(vy) < limit \/ (Abs(vy) = limit /\ vyErr > 0)

\* velocity.y -= acceleration * dt while the speed is below the limit
balloonVy(b, t) ==
    IF speedBelow(b.vy, b.vyErr, maxSpeed(t))
    THEN LET vy == b.vy - ((BALLOON_ACCELERATION * VU) \div TU) * physicsStep
         IN  [vy |-> vy, vyErr |-> -roundErr(-vy, accelStepErr - b.vyErr)]
    ELSE [vy |-> b.vy, vyErr |-> b.vyErr]

\* driftOffset is kept in 1/(2 TU) rad, so that dt * 0.5 is physicsStep units
balloonDrift(off) ==
    SinMilli((off * 11937) \div 10000) + SinMilli((off * 27454) \div 10000) \div 2

updateBalloon(b, t) ==
    LET v == balloonVy(b, t)
        vy == v.vy
        off == b.driftOffset + physicsStep
        drift == balloonDrift(off)
    IN  [b EXCEPT !.vy = vy, !.vyErr = v.vyErr, !.driftOffset = off,
                  !.vx = drift * (VU \div PX),
                  !.y = b.y + RDiv(vy, MoveDiv),
                  !.x = canvasW \div 2 + drift]

updateShield(sh) ==
    LET dx == sh.tx - sh.x
        dy == sh.ty - sh.y
        mx == RDiv(dx * 28, 100)
        my == RDiv(dy * 28, 100)
    IN  \* dx = target - position is NaN when either is
        IF sh.nan \/ sh.tnan
        THEN [sh EXCEPT !.x = 0, !.y = 0, !.vx = 0, !.vy = 0, !.nan = TRUE]
        ELSE [sh EXCEPT !.x = sh.x + mx, !.y = sh.y + my, !.vx = mx, !.vy = my]

\* the attraction with both ends of its range included
attractionInclusive(o, sh) ==
    LET dx == sh.x - o.x
        dy == sh.y - o.y
        near == sh.radius + o.radius + 10 * PX
    IN  IF o.anchored \/ sh.nan \/ Abs(dx) > 200 * PX \/ Abs(dy) > 200 * PX
        THEN <<0, 0>>
        ELSE LET dsq == dx * dx + dy * dy
             IN  IF dsq >= near * near /\ dsq <= (200 * PX) * (200 * PX)
                 THEN LET distance == ISqrt(dsq)
                          mass == getObstacleMass(o.type)
                          q == ((((15 * VU * PX * PX) \div 12) \div distance) * 1000) \div distance
                      IN  << RDiv(dx * q, distance * mass * 1000),
                             RDiv(dy * q, distance * mass * 1000) >>
                 ELSE <<0, 0>>

\* the velocity change <<dvx, dvy>> the shield's attraction gives obstacle o
attraction(o, sh) ==
    LET dx == sh.x - o.x
        dy == sh.y - o.y
        near == sh.radius + o.radius + 10 * PX
    IN  \* a NaN distance passes neither comparison of line 348
        IF o.anchored \/ sh.nan \/ Abs(dx) >= 200 * PX \/ Abs(dy) >= 200 * PX
        THEN <<0, 0>>
        ELSE LET dsq == dx * dx + dy * dy
             IN  IF dsq > near * near /\ dsq < (200 * PX) * (200 * PX)
                 THEN LET distance == ISqrt(dsq)
                          mass == getObstacleMass(o.type)
                          \* 15 / distance^2 * dt / mass, along (dx, dy) / distance
                          q == ((((15 * VU * PX * PX) \div 12) \div distance) * 1000) \div distance
                      IN  << RDiv(dx * q, distance * mass * 1000),
                             RDiv(dy * q, distance * mass * 1000) >>
                 ELSE <<0, 0>>

damp(v) == v - RDiv(v * 3, 200)

\* the loop body without the test of the margin below the camera
moveObstacleNoCull(o, sh, camY) ==
    LET pull == attraction(o, sh)
        vx == damp(o.vx + pull[1])
        vy == damp(o.vy + pull[2])
        x == o.x + RDiv(vx, MoveDiv)
        y == o.y + RDiv(vy, MoveDiv)
        angle == IF o.type = "rotor" /\ o.rotationSpeed # 0
                 THEN o.angle + o.rotationSpeed ELSE o.angle
        life == IF o.hasLife THEN o.lifeTime - physicsStep ELSE o.lifeTime
        expired == o.hasLife /\ life <= 0
    IN  [o EXCEPT !.vx = vx, !.vy = vy, !.x = x, !.y = y, !.angle = angle,
                  !.lifeTime = life,
                  !.active = o.active /\ ~expired]

\* one obstacle through the body of updateObstacles' loop
moveObstacle(o, sh, camY) ==
    LET pull == attraction(o, sh)
        vx == damp(o.vx + pull[1])
        vy == damp(o.vy + pull[2])
        x == o.x + RDiv(vx, MoveDiv)
        y == o.y + RDiv(vy, MoveDiv)
        angle == IF o.type = "rotor" /\ o.rotationSpeed # 0
                 THEN o.angle + o.rotationSpeed ELSE o.angle
        life == IF o.hasLife THEN o.lifeTime - physicsStep ELSE o.lifeTime
        expired == o.hasLife /\ life <= 0
        culled == y > camY + canvasH + 200 * PX
    IN  [o EXCEPT !.vx = vx, !.vy = vy, !.x = x, !.y = y, !.angle = angle,
                  !.lifeTime = life,
                  !.active = o.active /\ ~expired /\ ~culled]

\* the loop deactivating what is below the window's bottom, margin left out
updateObstaclesNoMargin(obs, sh, camY) ==
    [k \in 1..Len(obs) |->
        LET m == moveObstacle(obs[k], sh, camY)
        IN  [m EXCEPT !.active = m.active /\ m.y <= camY + canvasH]]

updateObstacles(obs, sh, camY) ==
    [k \in 1..Len(obs) |-> moveObstacle(obs[k], sh, camY)]

\* the camera without its dead zone test
updateCameraAlways(camY, balloonY) ==
    balloonY - canvasH + 300 * PX + CAMERA_DEAD_ZONE * PX

updateCamera(camY, balloonY) ==
    LET targetCameraY == balloonY - canvasH + 300 * PX
    IN  IF targetCameraY < camY - CAMERA_DEAD_ZONE * PX
        THEN targetCameraY + CAMERA_DEAD_ZONE * PX
        ELSE camY


\* Math.min(shieldSpeed * 0.3, 150) in 1/VU px/s.  A component of 417 (1/PX px
\* per step, over 500 px/s) already reaches the cap of 150.
shieldContribution(sh) ==
    IF Abs(sh.vx) >= 417 \/ Abs(sh.vy) >= 417 THEN 150 * VU
    ELSE Min(150 * VU, ISqrt(sh.vx * sh.vx + sh.vy * sh.vy) * ((36 * VU) \div 100))

\* (Math.random() - 0.5) * amount / mass in 1/VU px/s
jitter(draw, amount, mass) == RDiv((draw - 500) * amount * (VU \div 100), mass)

\* the rotor's feedback, with the wobble of the spikes added to it
spinUpWobble(o) ==
    [o EXCEPT !.rotationSpeed = o.rotationSpeed + 500, !.x = o.x + PX \div 10]

\* rotationSpeed = (rotationSpeed || 0) + 0.5 * Math.sign(rotationSpeed || 1)
spinUp(o) ==
    [o EXCEPT !.rotationSpeed =
         o.rotationSpeed + 500 * Sign(IF o.rotationSpeed # 0 THEN o.rotationSpeed ELSE 1)]

\* handleShieldCollision on obstacle o with collision info c; the Math.random()
\* calls it makes start at tape index i
handleShieldCollision(o, c, sh, tape, i) ==
    LET mass == getObstacleMass(o.type)
        baseImpulseStrength == (IF o.anchored THEN 50 ELSE 250) * VU
        rect == o.type = "block" \/ o.type = "sweeper"
        \* rectangular: separate along the normal by 2 px
        o1 == IF rect THEN [o EXCEPT !.x = o.x + RDiv(c.nx * 2 * PX, 1000),
                                     !.y = o.y + RDiv(c.ny * 2 * PX, 1000)]
              ELSE o
        dx == o.x - sh.x
        dy == o.y - sh.y
        distance == IF rect THEN 1 ELSE ISqrt(dx * dx + dy * dy)
    IN  IF ~rect /\ dx = 0 /\ dy = 0
        THEN IF ~o.anchored
             THEN [o EXCEPT !.vx = o.vx + jitter(Rand(tape, i), 100, mass),
                            !.vy = o.vy + jitter(Rand(tape, i + 1), 100, mass)]
             ELSE o
        ELSE
        LET dirX == IF rect THEN c.nx ELSE RDiv(1000 * dx, distance)
            dirY == IF rect THEN c.ny ELSE RDiv(1000 * dy, distance)
            totalImpulse == baseImpulseStrength
                            + (IF o.anchored THEN 0 ELSE shieldContribution(sh))
            impulseX == RDiv(dirX * RDiv(totalImpulse, 100), mass)
            impulseY == RDiv(dirY * RDiv(totalImpulse, 100), mass)
            o2 == IF o.anchored
                  THEN IF o.type = "rotor"
                       THEN spinUp(o1)
                       ELSE IF o.type = "spike" \/ o.type = "block"
                       THEN LET x == o1.x + RDiv(impulseX, (10 * VU) \div PX)
                                y == o1.y + RDiv(impulseY, (10 * VU) \div PX)
                                ox == IF o.hasOrig THEN o.ox ELSE x
                                oy == IF o.hasOrig THEN o.oy ELSE y
                            IN  [o1 EXCEPT !.x = x, !.y = y, !.hasOrig = TRUE,
                                           !.ox = ox, !.oy = oy,
                                           !.vx = (ox - x) * ((15 * VU) \div (100 * PX)),
                                           !.vy = (oy - y) * ((15 * VU) \div (100 * PX))]
                       ELSE o1
                  ELSE LET randomness == IF rect THEN 10 ELSE 20
                       IN  [o1 EXCEPT
                              !.vx = o1.vx + impulseX + jitter(Rand(tape, i), randomness, mass),
                              !.vy = o1.vy + impulseY + jitter(Rand(tape, i + 1), randomness, mass)]
        IN  IF o.type = "shard" THEN [o2 EXCEPT !.active = FALSE] ELSE o2

balloonHits(b, obs) ==
    \E k \in 1..Len(obs) : obs[k].active /\ checkCollision(b, obs[k]).hit

\* the shield loop without `if (!obstacle.active) continue`
shieldTouchesInactive(sh, o) == ~sh.nan /\ checkCollision(sh, o).hit

\* both tests of CollisionSystem compare a NaN with <= when the shield's
\* position is NaN, and return null
shieldTouches(sh, o) == o.active /\ ~sh.nan /\ checkCollision(sh, o).hit

\* the second loop of checkCollisions
RECURSIVE ShieldLoop(_, _, _, _, _)
ShieldLoop(obs, k, sh, tape, i) ==
    IF k > Len(obs) THEN << >>
    ELSE IF shieldTouches(sh, obs[k])
    THEN <<handleShieldCollision(obs[k], checkCollision(sh, obs[k]), sh, tape, i)>>
         \o ShieldLoop(obs, k + 1, sh, tape, i + 2)
    ELSE <<obs[k]>> \o ShieldLoop(obs, k + 1, sh, tape, i)

\* the balloon loop left out
checkCollisionsShieldOnly(b, sh, obs, t, tape) ==
    LET touched == {k \in 1..Len(obs) : shieldTouches(sh, obs[k])}
        n == Cardinality(touched)
    IN  [gameOver |-> FALSE,
         obstacles |-> ShieldLoop(obs, 1, sh, tape, 1),
         shield |-> IF n > 0 THEN [sh EXCEPT !.lastHitTime = t] ELSE sh,
         shieldHits |-> n, touched |-> touched]

\* the return after gameOver() left out: the shield loop runs all the same
checkCollisionsBothLoops(b, sh, obs, t, tape) ==
    LET touched == {k \in 1..Len(obs) : shieldTouches(sh, obs[k])}
        n == Cardinality(touched)
    IN  [gameOver |-> balloonHits(b, obs),
         obstacles |-> ShieldLoop(obs, 1, sh, tape, 1),
         shield |-> IF n > 0 THEN [sh EXCEPT !.lastHitTime = t] ELSE sh,
         shieldHits |-> n, touched |-> touched]

\* the first loop testing the shield in the balloon's place
checkCollisionsShieldFatal(b, sh, obs, t, tape) ==
    IF \E k \in 1..Len(obs) : shieldTouches(sh, obs[k])
    THEN [gameOver |-> TRUE, obstacles |-> obs, shield |-> sh, shieldHits |-> 0,
          touched |-> {}]
    ELSE [gameOver |-> FALSE, obstacles |-> obs, shield |-> sh, shieldHits |-> 0,
          touched |-> {}]

\* the shield loop without `this.shield.lastHitTime = this.gameTime`
checkCollisionsNoStamp(b, sh, obs, t, tape) ==
    IF balloonHits(b, obs)
    THEN [gameOver |-> TRUE, obstacles |-> obs, shield |-> sh, shieldHits |-> 0,
          touched |-> {}]
    ELSE LET touched == {k \in 1..Len(obs) : shieldTouches(sh, obs[k])}
         IN  [gameOver |-> FALSE,
              obstacles |-> ShieldLoop(obs, 1, sh, tape, 1),
              shield |-> sh,
              shieldHits |-> Cardinality(touched), touched |-> touched]

\* checkCollisions: balloon first (terminal), then the shield
checkCollisions(b, sh, obs, t, tape) ==
    IF balloonHits(b, obs)
    THEN [gameOver |-> TRUE, obstacles |-> obs, shield |-> sh, shieldHits |-> 0,
          touched |-> {}]
    ELSE LET touched == {k \in 1..Len(obs) : shieldTouches(sh, obs[k])}
             n == Cardinality(touched)
         IN  [gameOver |-> FALSE,
              obstacles |-> ShieldLoop(obs, 1, sh, tape, 1),
              shield |-> IF n > 0 THEN [sh EXCEPT !.lastHitTime = t] ELSE sh,
              shieldHits |-> n, touched |-> touched]

\* the purge left out
keepAll(obs) == obs

activeOnly(obs) ==
    LET isActive(o) == o.active
    IN  SelectSeq(obs, isActive)

\* the altitude counted from the balloon's start position
scoreFromStart(balloonY) == Max(0, canvasH - 100 * PX - balloonY)

scoreOf(balloonY) == Max(0, canvasH - balloonY)

---------------------------------------------------------------------------
(* GameEngine: updatePhysics and gameLoop, on a record of the engine's fields *)

TrailLen == 6

\* deadOverlaps counts the obstacles that motion integration deactivated where
\* they overlap the balloon or the shield; scoreSeen is this.score while
\* checkCollisions runs, the value getScore() returns to a state-changed
\* listener called from gameOver()
NoTick == [ran |-> FALSE, balloonHit |-> FALSE, shieldHits |-> 0, inactive |-> 0,
           spawned |-> 0, ticks |-> 0, shardsHit |-> 0, shardsKept |-> 0,
           deadOverlaps |-> 0, scoreSeen |-> 0]

NoProbe == [op |-> "none"]

\* the clock right after `lastTime = performance.now()`
NoWait == [elapsed |-> 0, idle |-> 0]

pushTrail(trail, log) ==
    IF log.name = "none" THEN trail
    ELSE LET t == Append(trail, log.name)
         IN  IF Len(t) > TrailLen THEN Tail(t) ELSE t

Engine ==
    [gameState |-> gameState, score |-> score, gameTime |-> gameTime,
     cameraY |-> cameraY, balloon |-> balloon, shield |-> shield,
     obstacles |-> obstacles,
     pat |-> [spawnTimer |-> spawnTimer, spawnCooldown |-> spawnCooldown,
              lastSpawnY |-> lastSpawnY, patternHistory |-> patternHistory],
     notes |-> << >>, scoreNotes |-> 0, gameOverCount |-> gameOverCount,
     tickLog |-> NoTick, spawnLog |-> NoSpawnLog, spawned |-> << >>,
     execTrail |-> execTrail, spawnedAt |-> spawnedAt]

\* updateSpawning: the parameters handed to PatternSystem.update
spawnParams(camY, b, sh, t) ==
    [centerX |-> canvasW \div 2,
     spawnY |-> camY - 100 * PX,
     balloonVelocity |-> Abs(b.vy),
     shieldRadius |-> sh.radius,
     difficulty |-> Min(DiffDen, t)]

\* the end of updatePhysics: the score, the purge, and what the tick did
physicsEnd(e, t, b, up, cc, overlap) ==
    [gameState |-> IF cc.gameOver THEN "gameOver" ELSE e.gameState,
     score |-> scoreOf(b.y),
     gameTime |-> t,
     cameraY |-> updateCamera(e.cameraY, b.y),
     balloon |-> b,
     shield |-> cc.shield,
     obstacles |-> activeOnly(cc.obstacles),
     pat |-> [spawnTimer |-> up.spawnTimer, spawnCooldown |-> up.spawnCooldown,
              lastSpawnY |-> up.lastSpawnY, patternHistory |-> up.patternHistory],
     notes |-> IF cc.gameOver THEN Append(e.notes, "gameOver") ELSE e.notes,
     scoreNotes |-> e.scoreNotes + 1,
     gameOverCount |-> e.gameOverCount + (IF cc.gameOver THEN 1 ELSE 0),
     tickLog |-> [ran |-> TRUE, balloonHit |-> overlap,
                  shieldHits |-> cc.shieldHits,
                  inactive |-> Cardinality({k \in 1..Len(cc.obstacles) :
                                              ~cc.obstacles[k].active}),
                  spawned |-> Len(up.obstacles),
                  ticks |-> e.tickLog.ticks + 1,
                  shardsHit |-> Cardinality({k \in cc.touched :
                                               cc.obstacles[k].type = "shard"}),
                  shardsKept |-> Cardinality({k \in cc.touched :
                                                /\ cc.obstacles[k].type = "shard"
                                                /\ cc.obstacles[k].active}),
                  deadOverlaps |->
                      Cardinality({k \in (1..Len(cc.obstacles)) \ cc.touched :
                                     /\ ~cc.obstacles[k].active
                                     /\ \/ checkCollision(b, cc.obstacles[k]).hit
                                        \/ checkCollision(cc.shield, cc.obstacles[k]).hit}),
                  scoreSeen |-> e.score],
     spawnLog |-> IF up.log.fired
                  THEN [up.log EXCEPT !.trailBefore = e.execTrail] ELSE e.spawnLog,
     spawned |-> IF up.log.fired THEN up.obstacles ELSE e.spawned,
     execTrail |-> pushTrail(e.execTrail, up.log),
     spawnedAt |-> IF up.log.fired THEN t ELSE e.spawnedAt]

\* updatePhysics from checkCollisions on: obs are the moved obstacles
physicsCollide(e, t, b, sh, obs, up, tape) ==
    physicsEnd(e, t, b, up, checkCollisions(b, sh, obs \o up.obstacles, t, tape),
               balloonHits(b, obs \o up.obstacles))

\* updatePhysics from updateObstacles on: b and sh are the moved balloon and shield
physicsMove(e, t, b, sh, tape) ==
    physicsCollide(e, t, b, sh,
                   updateObstacles(e.obstacles, sh, e.cameraY),
                   update(e.pat, physicsStep, spawnParams(e.cameraY, b, sh, t), tape),
                   tape)

updatePhysics(e, mousePos, held, sensitivity, tape) ==
    physicsMove(e, e.gameTime + physicsStep,
                updateBalloon(e.balloon, e.gameTime + physicsStep),
                updateShield(updateInput(e.shield, mousePos, held, sensitivity,
                                         e.cameraY)),
                tape)

\* the loop without its test of the game state
RECURSIVE physicsLoopAnyState(_, _, _, _, _, _)
physicsLoopAnyState(e, acc, mousePos, held, sensitivity, tape) ==
    IF acc >= physicsStep
    THEN physicsLoopAnyState(updatePhysics(e, mousePos, held, sensitivity, tape),
                             acc - physicsStep, mousePos, held, sensitivity, tape)
    ELSE [e |-> e, accumulator |-> acc]

\* the while loop of gameLoop
RECURSIVE physicsLoop(_, _, _, _, _, _)
physicsLoop(e, acc, mousePos, held, sensitivity, tape) ==
    IF acc >= physicsStep
    THEN physicsLoop(IF e.gameState = "playing"
                     THEN updatePhysics(e, mousePos, held, sensitivity, tape)
                     ELSE e,
                     acc - physicsStep, mousePos, held, sensitivity, tape)
    ELSE [e |-> e, accumulator |-> acc]

\* frameTime: the time since the last frame, capped at 250 ms
frameTime(delta) == Min(delta, TU \div 4)

---------------------------------------------------------------------------
(* The state after `new GameEngine(canvas)` *)

EngineInit ==
    /\ gameState = "menu"
    /\ score = 0
    /\ gameTime = 0
    /\ cameraY = 0
    /\ settings = [sensitivity |-> Num(10), shieldSize |-> "normal", debugMode |-> FALSE]
    /\ balloon = newBalloon
    /\ shield = newShield(getShieldRadius("normal"))
    /\ obstacles = << >>
    /\ accumulator = 0
    /\ animationId = 0
    /\ rafPending = {}
    /\ mouse = [x |-> 0, y |-> 0]
    /\ keys = {}
    /\ clock = NoWait

PatternInit ==
    /\ spawnTimer = 0
    /\ spawnCooldown = (12 * TU * SU) \div 10
    /\ lastSpawnY = 0
    /\ patternHistory = << >>

ObsStart ==
    /\ notes = << >>
    /\ scoreNotes = 0
    /\ prevState = "menu"
    /\ gameOverCount = 0
    /\ lastOp = "new"
    /\ tickLog = NoTick
    /\ spawnLog = NoSpawnLog
    /\ spawned = << >>
    /\ execTrail = << >>
    /\ spawnedAt = -1
    /\ stopped = FALSE

ObsInit == ObsStart /\ probe = NoProbe

---------------------------------------------------------------------------
(* Operations of GameEngine.  `calls` is set by the specifications below. *)

SetEngine(e) ==
    /\ gameState' = e.gameState
    /\ score' = e.score
    /\ gameTime' = e.gameTime
    /\ cameraY' = e.cameraY
    /\ balloon' = e.balloon
    /\ shield' = e.shield
    /\ obstacles' = e.obstacles
    /\ spawnTimer' = e.pat.spawnTimer
    /\ spawnCooldown' = e.pat.spawnCooldown
    /\ lastSpawnY' = e.pat.lastSpawnY
    /\ patternHistory' = e.pat.patternHistory
    /\ notes' = e.notes
    /\ scoreNotes' = e.scoreNotes
    /\ gameOverCount' = e.gameOverCount
    /\ tickLog' = e.tickLog
    /\ spawnLog' = e.spawnLog
    /\ spawned' = e.spawned
    /\ execTrail' = e.execTrail
    /\ spawnedAt' = e.spawnedAt

\* the operation op, called with the arguments (and returning what) pr holds
ObserveCall(op, pr) ==
    /\ prevState' = gameState
    /\ lastOp' = op
    /\ probe' = pr
    /\ stopped' = IF op = "stop" THEN TRUE ELSE IF op = "start" THEN FALSE ELSE stopped

Observe(op) == ObserveCall(op, NoProbe)

\* what cancelAnimationFrame(animationId) leaves pending
cancelled(pending) == IF animationId # 0 THEN pending \ {animationId} ELSE pending

\* the body of gameLoop run for loop c, `delta` of clock time after lastTime,
\* `pending` being the requests pending when it issues its own
gameLoopWith(c, delta, pending) ==
    LET r == physicsLoop(Engine, accumulator + frameTime(delta), mouse, keys,
                         settings.sensitivity, rng)
    IN  /\ SetEngine(r.e)
        /\ accumulator' = r.accumulator
        /\ clock' = NoWait
        /\ animationId' = c
        /\ rafPending' = pending \cup {c}
        /\ UNCHANGED <<mouse, keys, settings, rng>>

gameLoop(c, delta) == gameLoopWith(c, delta, rafPending)

\* an operation that runs no physics and delivers no score-changed
QuietCall(op, pr) ==
    /\ scoreNotes' = 0
    /\ tickLog' = NoTick
    /\ spawnLog' = NoSpawnLog
    /\ spawned' = << >>
    /\ ObserveCall(op, pr)
    /\ UNCHANGED <<gameOverCount, execTrail, spawnedAt, clock>>

Quiet(op) == QuietCall(op, NoProbe)

\* start(): lastTime = now, then gameLoop() at once
Start(c) ==
    /\ c \notin rafPending
    /\ gameLoop(c, 0)
    /\ Observe("start")

\* stop(): cancel the request animationId names
Stop ==
    /\ rafPending' = cancelled(rafPending)
    /\ notes' = << >>
    /\ Quiet("stop")
    /\ UNCHANGED <<gameState, score, gameTime, cameraY, balloon, shield, obstacles,
                   accumulator, animationId, mouse, keys, settings, patternVars, rng>>

\* clock time d passes and nothing runs
Wait(d) ==
    /\ rafPending # {}
    /\ clock' = [elapsed |-> clock.elapsed + d,
                 idle |-> clock.idle + (IF gameState = "playing" THEN 0 ELSE d)]
    /\ lastOp' = "wait"
    /\ prevState' = gameState
    /\ notes' = << >>
    /\ scoreNotes' = 0
    /\ tickLog' = NoTick
    /\ spawnLog' = NoSpawnLog
    /\ spawned' = << >>
    /\ probe' = NoProbe
    /\ UNCHANGED <<gameState, score, gameTime, cameraY, balloon, shield, obstacles,
                   accumulator, animationId, rafPending, mouse, keys, settings,
                   patternVars, gameOverCount, execTrail, spawnedAt, stopped, rng>>

\* what a frame callback found: the accumulator and the clock before it ran
frameProbe(delta) ==
    [op |-> "frame", before |-> accumulator,
     elapsed |-> clock.elapsed + delta,
     idle |-> clock.idle + (IF gameState = "playing" THEN 0 ELSE delta)]

\* the browser runs the frame callback loop c requested, a further `delta` of
\* clock time from now
FrameTick(c, delta) ==
    /\ c \in rafPending
    /\ gameLoop(c, clock.elapsed + delta)
    /\ ObserveCall("frame", frameProbe(delta))

\* the same frame callback when the host's onScoreChange or onGameStateChange
\* calls stop() from inside it: the request being served is no longer pending,
\* and gameLoop issues the next one after stop() returned
FrameTickStop(c, delta) ==
    /\ c \in rafPending
    /\ gameState = "playing"
    /\ accumulator + frameTime(clock.elapsed + delta) >= physicsStep
    /\ gameLoopWith(c, clock.elapsed + delta, cancelled(rafPending \ {c}))
    /\ prevState' = gameState
    /\ lastOp' = "frame"
    /\ probe' = frameProbe(delta)
    /\ stopped' = TRUE

\* resetGame without its reset of the camera
resetGameKeepCamera(op) ==
    /\ gameTime' = 0
    /\ score' = 0
    /\ cameraY' = cameraY
    /\ obstacles' = << >>
    /\ balloon' = newBalloon
    /\ shield' = newShield(shield.radius)
    /\ spawnTimer' = resetPatterns.spawnTimer
    /\ spawnCooldown' = resetPatterns.spawnCooldown
    /\ lastSpawnY' = resetPatterns.lastSpawnY
    /\ patternHistory' = resetPatterns.patternHistory
    /\ scoreNotes' = 1
    /\ execTrail' = << >>
    /\ spawnedAt' = -1
    /\ spawnLog' = NoSpawnLog
    /\ spawned' = << >>
    /\ tickLog' = NoTick
    /\ Observe(op)

\* resetGame, then the switch to 'playing'
resetGame(op) ==
    /\ gameTime' = 0
    /\ score' = 0
    /\ cameraY' = 0
    /\ obstacles' = << >>
    /\ balloon' = newBalloon
    /\ shield' = newShield(shield.radius)
    /\ spawnTimer' = resetPatterns.spawnTimer
    /\ spawnCooldown' = resetPatterns.spawnCooldown
    /\ lastSpawnY' = resetPatterns.lastSpawnY
    /\ patternHistory' = resetPatterns.patternHistory
    /\ scoreNotes' = 1
    /\ execTrail' = << >>
    /\ spawnedAt' = -1
    /\ spawnLog' = NoSpawnLog
    /\ spawned' = << >>
    /\ tickLog' = NoTick
    /\ Observe(op)

startGameAs(op) ==
    /\ resetGame(op)
    /\ gameState' = "playing"
    /\ notes' = <<"playing">>
    /\ gameOverCount' = 0
    /\ UNCHANGED <<accumulator, animationId, rafPending, mouse, keys, settings, clock,
                   rng>>

StartGame == startGameAs("startGame")

RestartGame == startGameAs("restartGame")

\* pauseGame without its test of the game state
PauseGameAnyState ==
    /\ gameState' = "paused" /\ notes' = <<"paused">>
    /\ Quiet("pauseGame")
    /\ UNCHANGED <<score, gameTime, cameraY, balloon, shield, obstacles, accumulator,
                   animationId, rafPending, mouse, keys, settings, patternVars, rng>>

PauseGame ==
    /\ IF gameState = "playing"
       THEN gameState' = "paused" /\ notes' = <<"paused">>
       ELSE gameState' = gameState /\ notes' = << >>
    /\ Quiet("pauseGame")
    /\ UNCHANGED <<score, gameTime, cameraY, balloon, shield, obstacles, accumulator,
                   animationId, rafPending, mouse, keys, settings, patternVars, rng>>

\* resumeGame without its notification
ResumeGameSilent ==
    /\ IF gameState = "paused" THEN gameState' = "playing" ELSE gameState' = gameState
    /\ notes' = << >>
    /\ Quiet("resumeGame")
    /\ UNCHANGED <<score, gameTime, cameraY, balloon, shield, obstacles, accumulator,
                   animationId, rafPending, mouse, keys, settings, patternVars, rng>>

ResumeGame ==
    /\ IF gameState = "paused"
       THEN gameState' = "playing" /\ notes' = <<"playing">>
       ELSE gameState' = gameState /\ notes' = << >>
    /\ Quiet("resumeGame")
    /\ UNCHANGED <<score, gameTime, cameraY, balloon, shield, obstacles, accumulator,
                   animationId, rafPending, mouse, keys, settings, patternVars, rng>>

ToggleDebug ==
    /\ settings' = [settings EXCEPT !.debugMode = ~settings.debugMode]
    /\ notes' = << >>
    /\ Quiet("toggleDebug")
    /\ UNCHANGED <<gameState, score, gameTime, cameraY, balloon, shield, obstacles,
                   accumulator, animationId, rafPending, mouse, keys, patternVars, rng>>

\* Math.max(0.5, Math.min(1.5, sensitivity)), in 1/10
clampSensitivity(v) == jsMax(Num(5), jsMin(Num(15), v))

SetSensitivity(v) ==
    /\ settings' = [settings EXCEPT !.sensitivity = clampSensitivity(v)]
    /\ notes' = << >>
    /\ QuietCall("setSensitivity", [op |-> "setSensitivity", sensitivity |-> v])
    /\ UNCHANGED <<gameState, score, gameTime, cameraY, balloon, shield, obstacles,
                   accumulator, animationId, rafPending, mouse, keys, patternVars, rng>>

\* setShieldSize without its update of the shield
SetShieldSizeSettingOnly(size) ==
    /\ settings' = [settings EXCEPT !.shieldSize = size]
    /\ notes' = << >>
    /\ Quiet("setShieldSize")
    /\ UNCHANGED <<gameState, score, gameTime, cameraY, balloon, shield, obstacles,
                   accumulator, animationId, rafPending, mouse, keys, patternVars, rng>>

SetShieldSize(size) ==
    /\ settings' = [settings EXCEPT !.shieldSize = size]
    /\ shield' = [shield EXCEPT !.radius = getShieldRadius(size)]
    /\ notes' = << >>
    /\ Quiet("setShieldSize")
    /\ UNCHANGED <<gameState, score, gameTime, cameraY, balloon, obstacles,
                   accumulator, animationId, rafPending, mouse, keys, patternVars, rng>>

\* the canvas 'mousemove' listener; p is the pointer in canvas coordinates
MouseMove(p) ==
    /\ mouse' = [x |-> p[1], y |-> p[2] + cameraY]
    /\ notes' = << >>
    /\ Quiet("mousemove")
    /\ UNCHANGED <<gameState, score, gameTime, cameraY, balloon, shield, obstacles,
                   accumulator, animationId, rafPending, keys, settings, patternVars, rng>>

KeyDown(k) ==
    /\ keys' = keys \cup {k}
    /\ notes' = << >>
    /\ Quiet("keydown")
    /\ UNCHANGED <<gameState, score, gameTime, cameraY, balloon, shield, obstacles,
                   accumulator, animationId, rafPending, mouse, settings, patternVars, rng>>

KeyUp(k) ==
    /\ keys' = keys \ {k}
    /\ notes' = << >>
    /\ Quiet("keyup")
    /\ UNCHANGED <<gameState, score, gameTime, cameraY, balloon, shield, obstacles,
                   accumulator, animationId, rafPending, mouse, settings, patternVars, rng>>

\* Math.random() moves on to other draws
Reseed(tape) ==
    /\ rng' = tape
    /\ notes' = << >>
    /\ Quiet("random")
    /\ UNCHANGED <<engineVars, patternVars>>

---------------------------------------------------------------------------
(* Spec: the engine under every command and input, for a few frames *)

MaxFrames == 2
MaxCommands == 3
MaxInputs == 1
MaxLoops == 2

Loops == 1..MaxLoops
\* half a step, one step, and a stall beyond the 250 ms cap
FrameDeltas == {physicsStep \div 2, physicsStep, TU \div 4 + 1}
MousePoints == {<<0, 0>>, <<canvasW, canvasH>>}
ModelKeys == {"KeyW", "KeyD"}
ShieldSizes == {"small", "normal", "large"}
SensitivityInputs == {Num(-10), Num(12), Num(50), NaN}
RandomTapes == {<<0>>, <<500>>, <<650>>}
\* half a step, and a stall as long as the cap
WaitTimes == {physicsStep \div 2, TU \div 4}

NoCalls == [frames |-> 0, commands |-> 0, inputs |-> 0]

\* the component as mounted: useState('menu'), useState(0), useState(0), and
\* the settings panel showing its default values
NoHost ==
    [gameState |-> "menu", score |-> 0, bestScore |-> 0,
     sensitivity |-> 10, shieldSize |-> "normal", effectDue |-> FALSE]

Command == calls.commands < MaxCommands /\ calls' = [calls EXCEPT !.commands = @ + 1] /\ UNCHANGED host
Input == calls.inputs < MaxInputs /\ calls' = [calls EXCEPT !.inputs = @ + 1] /\ UNCHANGED host
Frame == calls.frames < MaxFrames /\ calls' = [calls EXCEPT !.frames = @ + 1] /\ UNCHANGED host

Init == EngineInit /\ PatternInit /\ ObsInit /\ rng = <<0>> /\ calls = NoCalls /\ host = NoHost

DoStart == \E c \in Loops : Start(c) /\ Command
DoStop == Stop /\ Command
DoFrame == \E c \in Loops, d \in FrameDeltas : FrameTick(c, d) /\ Frame
DoFrameStop == \E c \in Loops : FrameTickStop(c, physicsStep) /\ Frame
DoStartGame == StartGame /\ Command
DoRestartGame == RestartGame /\ Command
DoPauseGame == PauseGame /\ Command
DoResumeGame == ResumeGame /\ Command
DoToggleDebug == ToggleDebug /\ Input
DoSetSensitivity == \E v \in SensitivityInputs : SetSensitivity(v) /\ Input
DoSetShieldSize == \E z \in ShieldSizes : SetShieldSize(z) /\ Input
DoMouseMove == \E p \in MousePoints : MouseMove(p) /\ Input
DoKeyDown == \E k \in ModelKeys : KeyDown(k) /\ Input
DoKeyUp == \E k \in ModelKeys : KeyUp(k) /\ Input
DoWait == \E d \in WaitTimes : Wait(d) /\ Input

Next ==
    \/ DoStart
    \/ DoStop
    \/ DoFrame
    \/ DoFrameStop
    \/ DoStartGame
    \/ DoRestartGame
    \/ DoPauseGame
    \/ DoResumeGame
    \/ DoToggleDebug
    \/ DoSetSensitivity
    \/ DoSetShieldSize
    \/ DoMouseMove
    \/ DoKeyDown
    \/ DoKeyUp
    \/ DoWait

Spec == Init /\ [][Next]_vars

---------------------------------------------------------------------------
(* SpecRun: whole runs, one physics step per frame, under fixed draws *)

MaxRunTicks == 2600
MaxRuns == 2
MaxPauses == 1

RunTapes == {<<0>>, <<650>>}

\* calls.frames is unused here; commands counts the runs, inputs the pauses
RunInit ==
    /\ EngineInit /\ PatternInit /\ ObsInit /\ calls = NoCalls /\ host = NoHost
    /\ rng \in RunTapes

RunStart == Start(1) /\ UNCHANGED <<calls, host>>
RunFrame ==
    /\ gameTime < MaxRunTicks * physicsStep
    /\ FrameTick(1, physicsStep)
    /\ UNCHANGED <<calls, host>>
RunStartGame ==
    /\ calls.commands < MaxRuns
    /\ StartGame
    /\ calls' = [calls EXCEPT !.commands = @ + 1] /\ UNCHANGED host
RunRestartGame ==
    /\ calls.commands < MaxRuns
    /\ RestartGame
    /\ calls' = [calls EXCEPT !.commands = @ + 1] /\ UNCHANGED host
RunPauseGame ==
    /\ calls.inputs < MaxPauses
    /\ PauseGame
    /\ calls' = [calls EXCEPT !.inputs = @ + 1] /\ UNCHANGED host
RunResumeGame == ResumeGame /\ UNCHANGED <<calls, host>>

NextRun ==
    \/ RunStart
    \/ RunFrame
    \/ RunStartGame
    \/ RunRestartGame
    \/ RunPauseGame
    \/ RunResumeGame

SpecRun == RunInit /\ [][NextRun]_vars

---------------------------------------------------------------------------
(* SpecPattern: PatternSystem driven through its public operations *)

MaxPatternCalls == 5

\* spawn depths unlocking 1, 3 and all 7 patterns
PatternSpawnYs == {-100 * PX, -800 * PX, -2000 * PX}
PatternDts == {physicsStep, 2 * TU}
PatternDifficulties == {0, DiffDen}
\* half the width of the host's canvas, and of a canvas 800 wide
PatternCenters == {canvasW \div 2, 400 * PX}

PatternState ==
    [spawnTimer |-> spawnTimer, spawnCooldown |-> spawnCooldown,
     lastSpawnY |-> lastSpawnY, patternHistory |-> patternHistory]

\* PatternSystem.update(dt, params)
PSUpdate(dt, params) ==
    LET up == update(PatternState, dt, params, rng)
        log == [up.log EXCEPT !.trailBefore = execTrail]
    IN  /\ spawnTimer' = up.spawnTimer
        /\ spawnCooldown' = up.spawnCooldown
        /\ lastSpawnY' = up.lastSpawnY
        /\ patternHistory' = up.patternHistory
        /\ spawnLog' = log
        /\ spawned' = up.obstacles
        /\ execTrail' = pushTrail(execTrail, log)
        /\ Observe("update")
        /\ UNCHANGED <<engineVars, notes, scoreNotes, gameOverCount, tickLog, spawnedAt,
                       rng>>

\* PatternSystem.reset()
PSReset ==
    /\ spawnTimer' = resetPatterns.spawnTimer
    /\ spawnCooldown' = resetPatterns.spawnCooldown
    /\ lastSpawnY' = resetPatterns.lastSpawnY
    /\ patternHistory' = resetPatterns.patternHistory
    /\ spawnLog' = NoSpawnLog
    /\ spawned' = << >>
    /\ execTrail' = << >>
    /\ Observe("reset")
    /\ UNCHANGED <<engineVars, notes, scoreNotes, gameOverCount, tickLog, spawnedAt,
                   rng>>

PatternCall == calls.frames < MaxPatternCalls /\ calls' = [calls EXCEPT !.frames = @ + 1] /\ UNCHANGED host

PatternUpdate ==
    \E dt \in PatternDts, y \in PatternSpawnYs, d \in PatternDifficulties,
       cx \in PatternCenters :
        /\ PSUpdate(dt, [centerX |-> cx, spawnY |-> y,
                         balloonVelocity |-> BALLOON_BASE_VELOCITY * VU,
                         shieldRadius |-> shield.radius, difficulty |-> d])
        /\ PatternCall
PatternReset == PSReset /\ PatternCall
PatternReseed == \E t \in RandomTapes : Reseed(t) /\ UNCHANGED <<calls, host>>

PatternNext ==
    \/ PatternUpdate
    \/ PatternReset
    \/ PatternReseed

SpecPattern == Init /\ [][PatternNext]_vars

---------------------------------------------------------------------------
(* SpecAim: one run in which the pointer is aimed at shards.  The draws make
   the generator reach shard bursts; the pointer is then placed, between two
   frames, where the eased shield comes to rest on a shard's centre. *)

MaxAimTicks == 2594
AimFromTick == 2584
MaxAims == 2

AimTape == <<800, 0>>

\* where obstacle o is after the next tick when the shield is on top of it
nextPos(o) ==
    LET m == moveObstacle(o, [shield EXCEPT !.x = o.x, !.y = o.y], cameraY)
    IN  <<m.x, m.y>>

\* the pointer, in canvas coordinates, that puts the target where the eased
\* shield lands on obstacle o (as far as the canvas allows)
aimPoint(o) ==
    LET at == nextPos(o)
        tx == shield.x + RDiv((at[1] - shield.x) * 100, 28)
        ty == shield.y + RDiv((at[2] - shield.y) * 100, 28)
    IN  << Max(0, Min(canvasW, tx)), Max(0, Min(canvasH, ty - cameraY)) >>

AimInit ==
    /\ EngineInit /\ PatternInit /\ ObsInit /\ calls = NoCalls /\ host = NoHost
    /\ rng = AimTape

AimStart == Start(1) /\ UNCHANGED <<calls, host>>
AimStartGame ==
    /\ calls.commands < 1
    /\ StartGame
    /\ calls' = [calls EXCEPT !.commands = @ + 1] /\ UNCHANGED host
AimFrame ==
    /\ gameTime < MaxAimTicks * physicsStep
    /\ FrameTick(1, physicsStep)
    /\ UNCHANGED <<calls, host>>
AimPointer ==
    /\ calls.inputs < MaxAims
    /\ gameTime >= AimFromTick * physicsStep
    /\ \E k \in 1..Len(obstacles) :
           /\ obstacles[k].type = "shard"
           /\ MouseMove(aimPoint(obstacles[k]))
    /\ calls' = [calls EXCEPT !.inputs = @ + 1] /\ UNCHANGED host

NextAim ==
    \/ AimStart
    \/ AimStartGame
    \/ AimFrame
    \/ AimPointer

SpecAim == AimInit /\ [][NextAim]_vars

---------------------------------------------------------------------------
(* SpecCollide: the two tests of CollisionSystem called on their own.  The
   arguments are drawn at the start; the call leaves its result in probe. *)

MaxCoord == 6
MaxRadius == 3

Coords == (-MaxCoord)..MaxCoord
Radii == 0..MaxRadius
Extents == {0, 2, 4}

\* circleVsCircle(obj1, obj2): obj1 at the origin
CircleArgs ==
    [op : {"args"}, fn : {"circleVsCircle"},
     x1 : {0}, y1 : {0}, r1 : Radii, x2 : Coords, y2 : Coords, r2 : Radii]

\* circleVsAABB(cx, cy, r, ax, ay, aw, ah): the rectangle's corner at the origin
RectArgs ==
    [op : {"args"}, fn : {"circleVsAABB"},
     cx : Coords, cy : Coords, r : Radii, ax : {0}, ay : {0}, aw : Extents, ah : Extents]

\* game objects: a circular archetype and a rectangular one
PairObjects(xs, ys) ==
    [type : {"shard", "block"}, x : xs, y : ys, radius : {1, 2},
     width : {4}, height : {2}]

\* checkCollision(obj1, obj2): obj1 at the origin
PairArgs ==
    [op : {"args"}, fn : {"checkCollision"},
     obj1 : PairObjects({0}, {0}), obj2 : PairObjects(Coords, Coords)]

CollideInit ==
    /\ EngineInit /\ PatternInit /\ ObsStart /\ rng = <<0>> /\ calls = NoCalls /\ host = NoHost
    /\ probe \in CircleArgs \cup RectArgs \cup PairArgs

Called(op, pr) ==
    /\ probe' = pr
    /\ lastOp' = op
    /\ UNCHANGED <<engineVars, patternVars, notes, scoreNotes, prevState, gameOverCount,
                   tickLog, spawnLog, spawned, execTrail, spawnedAt, stopped, rng,
                   calls, host>>

CallCircleVsCircle ==
    /\ probe.op = "args" /\ probe.fn = "circleVsCircle"
    /\ Called("circleVsCircle",
              [op |-> "circleVsCircle", args |-> probe,
               result |-> circleVsCircle(probe.x1, probe.y1, probe.r1,
                                         probe.x2, probe.y2, probe.r2)])

CallCircleVsAABB ==
    /\ probe.op = "args" /\ probe.fn = "circleVsAABB"
    /\ Called("circleVsAABB",
              [op |-> "circleVsAABB", args |-> probe,
               result |-> circleVsAABB(probe.cx, probe.cy, probe.r,
                                       probe.ax, probe.ay, probe.aw, probe.ah)])

\* checkCollision called on the pair, and on the pair swapped
CallCheckCollision ==
    /\ probe.op = "args" /\ probe.fn = "checkCollision"
    /\ Called("checkCollision",
              [op |-> "checkCollision", args |-> probe,
               result |-> checkCollision(probe.obj1, probe.obj2),
               swapped |-> checkCollision(probe.obj2, probe.obj1)])

NextCollide ==
    \/ CallCircleVsCircle
    \/ CallCircleVsAABB
    \/ CallCheckCollision

SpecCollide == CollideInit /\ [][NextCollide]_vars

---------------------------------------------------------------------------
(* SpecKeys: the first ticks of a run under every combination of held
   movement keys and two pointer positions *)

MaxKeyTicks == 2

MoveKeys == {"KeyW", "KeyA", "KeyS", "KeyD"}

KeysInit ==
    /\ EngineInit /\ PatternInit /\ ObsInit /\ calls = NoCalls /\ host = NoHost
    /\ rng = <<0>>

KeysStart == Start(1) /\ UNCHANGED <<calls, host>>
KeysStartGame ==
    /\ calls.commands < 1
    /\ StartGame
    /\ calls' = [calls EXCEPT !.commands = @ + 1] /\ UNCHANGED host
KeysFrame ==
    /\ gameTime < MaxKeyTicks * physicsStep
    /\ FrameTick(1, physicsStep)
    /\ UNCHANGED <<calls, host>>
KeysKeyDown == \E k \in MoveKeys \ keys : KeyDown(k) /\ UNCHANGED <<calls, host>>
KeysKeyUp == \E k \in keys : KeyUp(k) /\ UNCHANGED <<calls, host>>
KeysMouseMove ==
    \E p \in MousePoints :
        /\ <<mouse.x, mouse.y - cameraY>> # p
        /\ MouseMove(p)
        /\ UNCHANGED <<calls, host>>

NextKeys ==
    \/ KeysStart
    \/ KeysStartGame
    \/ KeysFrame
    \/ KeysKeyDown
    \/ KeysKeyUp
    \/ KeysMouseMove

SpecKeys == KeysInit /\ [][NextKeys]_vars

---------------------------------------------------------------------------
(* SpecRotor: one run in which the pointer is aimed at rotors.  At a few
   moments after the first rotor has come within reach of the window's top,
   the pointer is put above the rotor, beside it, or where the eased shield
   lands on the rotor's centre. *)

MaxRotorTicks == 2512
MaxRotorAims == 3

RotorTape == <<650>>
RotorAimTicks == {1995, 2040, 2140}

\* the pointer, in canvas coordinates, at the window's top `off` right of o
topPoint(o, off) == << Max(0, Min(canvasW, o.x + off)), 0 >>

RotorPoints(o) == {topPoint(o, 0), topPoint(o, 100 * PX), aimPoint(o)}

RotorInit ==
    /\ EngineInit /\ PatternInit /\ ObsInit /\ calls = NoCalls /\ host = NoHost
    /\ rng = RotorTape

RotorStart == Start(1) /\ UNCHANGED <<calls, host>>
RotorStartGame ==
    /\ calls.commands < 1
    /\ StartGame
    /\ calls' = [calls EXCEPT !.commands = @ + 1] /\ UNCHANGED host
RotorFrame ==
    /\ gameTime < MaxRotorTicks * physicsStep
    /\ FrameTick(1, physicsStep)
    /\ UNCHANGED <<calls, host>>
RotorPointer ==
    /\ calls.inputs < MaxRotorAims
    /\ gameTime \in {t * physicsStep : t \in RotorAimTicks}
    /\ lastOp = "frame"
    /\ \E k \in 1..Len(obstacles) :
           /\ obstacles[k].type = "rotor"
           /\ \E p \in RotorPoints(obstacles[k]) : MouseMove(p)
    /\ calls' = [calls EXCEPT !.inputs = @ + 1] /\ UNCHANGED host

NextRotor ==
    \/ RotorStart
    \/ RotorStartGame
    \/ RotorFrame
    \/ RotorPointer

SpecRotor == RotorInit /\ [][NextRotor]_vars

---------------------------------------------------------------------------
(* SpecPull: updateObstacles applied to one obstacle, at rest or falling, at
   chosen offsets from the shield: on top of it, at both ends of the range of
   the attraction for each archetype, inside and outside of it. *)

\* 60, 72 and 77 are the near ends (42 + radius + 10) for shards, blocks and
\* spikes; 36-48-60 and 120-160-200 are distances that are whole numbers
PullOffsets ==
    {0, 36 * PX, 48 * PX, 60 * PX, 60 * PX + 1, 72 * PX, 77 * PX, 100 * PX,
     120 * PX, 160 * PX, 200 * PX - 1, 200 * PX}

PullSpeeds == {0, 40 * VU}

PullKinds ==
    { [type |-> "shard", radius |-> 8 * PX, anchored |-> FALSE],
      [type |-> "block", radius |-> 20 * PX, anchored |-> FALSE],
      [type |-> "spike", radius |-> 25 * PX, anchored |-> FALSE],
      [type |-> "spike", radius |-> 25 * PX, anchored |-> TRUE] }

\* the obstacle of kind kd dx left of and dy above the shield, falling at vy
PullObstacle(kd, dx, dy, vy) ==
    Obstacle(kd.type, shield.x - dx, shield.y - dy, 0, vy, kd.radius,
             IF kd.type = "block" THEN 40 * PX ELSE 0,
             IF kd.type = "block" THEN 40 * PX ELSE 0, kd.anchored)

PullInit ==
    /\ EngineInit /\ PatternInit /\ ObsStart /\ rng = <<0>> /\ calls = NoCalls /\ host = NoHost
    /\ \E kd \in PullKinds, dx \in PullOffsets, dy \in PullOffsets, vy \in PullSpeeds :
           probe = [op |-> "args", fn |-> "updateObstacles",
                    o |-> PullObstacle(kd, dx, dy, vy)]

\* the loop body of updateObstacles on the one obstacle
CallUpdateObstacles ==
    /\ probe.op = "args" /\ probe.fn = "updateObstacles"
    /\ Called("updateObstacles",
              [op |-> "updateObstacles", args |-> probe,
               result |-> updateObstacles(<<probe.o>>, shield, cameraY)[1]])

NextPull ==
    \/ CallUpdateObstacles

SpecPull == PullInit /\ [][NextPull]_vars

---------------------------------------------------------------------------
(* SpecExpire: the run of SpecAim carried on to the tick in which the first
   shards' lifetime runs out.  The pointer is first brought below a shard,
   then, in the tick before the lifetime ends, put where the eased shield
   lands on the shard's centre. *)

MaxExpireTicks == 2612
MaxExpireAims == 2

ExpireAimTicks == {2590, 2608}

\* the pointer 150 below obstacle o
belowPoint(o) ==
    << Max(0, Min(canvasW, o.x)), Max(0, Min(canvasH, o.y + 150 * PX - cameraY)) >>

ExpireInit ==
    /\ EngineInit /\ PatternInit /\ ObsInit /\ calls = NoCalls /\ host = NoHost
    /\ rng = AimTape

ExpireStart == Start(1) /\ UNCHANGED <<calls, host>>
ExpireStartGame ==
    /\ calls.commands < 1
    /\ StartGame
    /\ calls' = [calls EXCEPT !.commands = @ + 1] /\ UNCHANGED host
ExpireFrame ==
    /\ gameTime < MaxExpireTicks * physicsStep
    /\ FrameTick(1, physicsStep)
    /\ UNCHANGED <<calls, host>>
ExpirePointer ==
    /\ calls.inputs < MaxExpireAims
    /\ gameTime \in {t * physicsStep : t \in ExpireAimTicks}
    /\ lastOp = "frame"
    /\ \E k \in 1..Len(obstacles) :
           /\ obstacles[k].type = "shard"
           /\ \E p \in {belowPoint(obstacles[k]), aimPoint(obstacles[k])} : MouseMove(p)
    /\ calls' = [calls EXCEPT !.inputs = @ + 1] /\ UNCHANGED host

NextExpire ==
    \/ ExpireStart
    \/ ExpireStartGame
    \/ ExpireFrame
    \/ ExpirePointer

SpecExpire == ExpireInit /\ [][NextExpire]_vars

---------------------------------------------------------------------------
(* SpecHost: the component BalloonShieldGame driving its engine.  The engine
   variables are those of the engine gameEngineRef holds.  The buttons shown
   follow the component's own gameState; the settings panel is used before
   the first run; the run is played by frames one tick long until it ends,
   and the retry by a few ticks. *)

MaxHostTicks == 2512
MaxHostRetryTicks == 4
MaxHostChoices == 1

HostTape == <<650>>

\* the values the settings panel offers beside its defaults
HostSensitivities == {5, 15}
HostShieldSizes == {"small", "large"}

\* the listeners the effect installs, after an operation of the engine:
\* onScoreChange = setScore, and onGameStateChange, which mirrors the state
\* and on 'gameOver' compares getScore() with the best score it closed over
heard(h) ==
    LET over == \E k \in 1..Len(notes') : notes'[k] = "gameOver"
        currentScore == IF tickLog'.ran THEN tickLog'.scoreSeen ELSE score'
        best == over /\ currentScore > h.bestScore
    IN  [h EXCEPT !.gameState = IF notes' = << >> THEN @ ELSE notes'[Len(notes')],
                  !.score = IF scoreNotes' > 0 THEN score' ELSE @,
                  !.bestScore = IF best THEN currentScore ELSE @,
                  !.effectDue = @ \/ best]

HostInit ==
    /\ EngineInit /\ PatternInit /\ ObsInit
    /\ calls = NoCalls /\ host = NoHost
    /\ rng = HostTape

\* the end of the engine-initialisation effect: engine.start()
HostStart ==
    /\ ~host.effectDue
    /\ Start(1)
    /\ host' = heard(host)
    /\ UNCHANGED calls

\* bestScore changed: the effect's cleanup stops the engine, and the effect
\* puts a new GameEngine, with the listeners, into gameEngineRef
HostEffect ==
    /\ host.effectDue
    /\ gameState' = "menu"
    /\ score' = 0
    /\ gameTime' = 0
    /\ cameraY' = 0
    /\ settings' = [sensitivity |-> Num(10), shieldSize |-> "normal",
                    debugMode |-> FALSE]
    /\ balloon' = newBalloon
    /\ shield' = newShield(getShieldRadius("normal"))
    /\ obstacles' = << >>
    /\ accumulator' = 0
    /\ animationId' = 0
    /\ rafPending' = {}
    /\ mouse' = [x |-> 0, y |-> 0]
    /\ keys' = {}
    /\ clock' = NoWait
    /\ spawnTimer' = 0
    /\ spawnCooldown' = (12 * TU * SU) \div 10
    /\ lastSpawnY' = 0
    /\ patternHistory' = << >>
    /\ notes' = << >>
    /\ scoreNotes' = 0
    /\ prevState' = gameState
    /\ gameOverCount' = 0
    /\ lastOp' = "new"
    /\ tickLog' = NoTick
    /\ spawnLog' = NoSpawnLog
    /\ spawned' = << >>
    /\ execTrail' = << >>
    /\ spawnedAt' = -1
    /\ probe' = NoProbe
    /\ stopped' = FALSE
    /\ host' = [host EXCEPT !.effectDue = FALSE]
    /\ UNCHANGED <<rng, calls>>

\* what the component does with an engine that runs
Mounted == ~host.effectDue /\ rafPending # {}

HostFrame ==
    /\ Mounted
    /\ gameTime < physicsStep * (IF calls.commands > 1 THEN MaxHostRetryTicks
                                                       ELSE MaxHostTicks)
    /\ FrameTick(1, physicsStep)
    /\ host' = heard(host)
    /\ UNCHANGED calls

\* handleStart, offered by the menu screen
HostStartGame ==
    /\ Mounted
    /\ host.gameState = "menu"
    /\ StartGame
    /\ host' = heard(host)
    /\ calls' = [calls EXCEPT !.commands = @ + 1]

\* handleRestart, offered by the game-over screen
HostRestartGame ==
    /\ Mounted
    /\ host.gameState = "gameOver"
    /\ calls.commands < 2
    /\ RestartGame
    /\ host' = heard(host)
    /\ calls' = [calls EXCEPT !.commands = @ + 1]

\* the slider of the settings panel
HostSetSensitivity ==
    /\ Mounted
    /\ calls.inputs < MaxHostChoices /\ host.gameState = "menu"
    /\ \E v \in HostSensitivities :
           /\ SetSensitivity(Num(v))
           /\ host' = [heard(host) EXCEPT !.sensitivity = v]
    /\ calls' = [calls EXCEPT !.inputs = @ + 1]

\* the select of the settings panel
HostSetShieldSize ==
    /\ Mounted
    /\ calls.inputs < MaxHostChoices /\ host.gameState = "menu"
    /\ \E size \in HostShieldSizes :
           /\ SetShieldSize(size)
           /\ host' = [heard(host) EXCEPT !.shieldSize = size]
    /\ calls' = [calls EXCEPT !.inputs = @ + 1]

NextHost ==
    \/ HostStart
    \/ HostEffect
    \/ HostFrame
    \/ HostStartGame
    \/ HostRestartGame
    \/ HostSetSensitivity
    \/ HostSetShieldSize

SpecHost == HostInit /\ [][NextHost]_vars

---------------------------------------------------------------------------
(* SpecFormation: the formation functions of PatternSystem applied to every
   tape of draws of a given length.  The draws are the ends and the quarter
   points of Math.random's range, so that every safe column, every side and
   every block count occurs. *)

FormationTapeLen == 4
FormationDraws == {0, 250, 500, 750, 999}
FormationTapes == [1..FormationTapeLen -> FormationDraws]

FormationInit ==
    /\ EngineInit /\ PatternInit /\ ObsInit /\ calls = NoCalls /\ host = NoHost
    /\ rng \in FormationTapes

FormationParams(y) ==
    [centerX |-> canvasW \div 2, spawnY |-> y,
     balloonVelocity |-> BALLOON_BASE_VELOCITY * VU,
     shieldRadius |-> shield.radius, difficulty |-> 0]

\* one call of a formation function; `blocks` is what it returned
FormationCall(name, y, blocks) ==
    /\ spawned' = blocks
    /\ spawnLog' = [NoSpawnLog EXCEPT !.fired = TRUE, !.name = name, !.spawnY = y,
                                      !.centerX = canvasW \div 2,
                                      !.shieldRadius = shield.radius]
    /\ Observe(name)
    /\ UNCHANGED <<engineVars, patternVars, notes, scoreNotes, gameOverCount, tickLog,
                   execTrail, spawnedAt, rng>>

CallSpawnGridDrop ==
    \E y \in PatternSpawnYs :
        /\ FormationCall("gridDrop", y, spawnGridDrop(FormationParams(y), rng, 1))
        /\ UNCHANGED <<calls, host>>

CallSpawnChicane ==
    \E y \in PatternSpawnYs :
        /\ FormationCall("chicane", y, spawnChicane(FormationParams(y), rng, 1))
        /\ UNCHANGED <<calls, host>>

NextFormation ==
    \/ CallSpawnGridDrop
    \/ CallSpawnChicane

SpecFormation == FormationInit /\ [][NextFormation]_vars

---------------------------------------------------------------------------
(* Properties.  `notes` holds the state-changed notifications the last
   operation delivered, prevState the game state before it, tickLog and
   spawnLog what its physics ticks and its pattern spawn did. *)

gameOverNotes == Cardinality({k \in 1..Len(notes) : notes[k] = "gameOver"})

\* C1: a physics tick in which the balloon overlaps an active obstacle ends in
\* gameOver and delivers state-changed('gameOver'); the notification is
\* delivered once per run, by that tick only, and the state stays gameOver
\* until a new run is started.
C1_GameOverOncePerRun ==
    /\ tickLog.balloonHit => gameState = "gameOver" /\ notes = <<"gameOver">>
    /\ gameOverNotes > 0 => tickLog.balloonHit
    /\ gameOverCount <= 1
    /\ gameOverCount = 1 <=> gameState = "gameOver"

C1_Witness == tickLog.balloonHit /\ gameState = "gameOver" /\ gameOverCount = 1

AllowedEdges ==
    { <<"menu", "playing">>, <<"playing", "paused">>, <<"paused", "playing">>,
      <<"playing", "gameOver">>, <<"gameOver", "playing">> }

AllowedEdge == <<gameState, gameState'>> \in AllowedEdges

\* C2: every step that changes the game state follows one of the edges
\* menu->playing, playing->paused, paused->playing, playing->gameOver,
\* gameOver->playing; so menu is never re-entered and paused is entered only
\* from playing.
C2_StateEdges == [][AllowedEdge]_gameState

C2_Witness == prevState = "gameOver" /\ gameState = "playing" /\ lastOp = "restartGame"

\* C3 (as amended): every operation that changes the game state delivers
\* exactly one notification, carrying the new state; pauseGame when not
\* playing, resumeGame when not paused and every frame that changes no state
\* deliver none; startGame and restartGame always deliver exactly one
\* state-changed('playing'), also when the state already was playing.
C3_NotesFollowChanges ==
    notes = IF gameState # prevState \/ lastOp \in {"startGame", "restartGame"}
            THEN <<gameState>>
            ELSE << >>

C3_Witness ==
    /\ lastOp \in {"startGame", "restartGame"}
    /\ prevState = "playing" /\ gameState = "playing"
    /\ notes = <<"playing">>

\* C3 as stated: notifications correspond one to one to changes of state, so
\* an operation that leaves the state as it was delivers none.
C3_OneToOne == notes = IF gameState # prevState THEN <<gameState>> ELSE << >>

playVars ==
    <<gameTime, balloon, shield, obstacles, cameraY, score,
      spawnTimer, spawnCooldown, lastSpawnY, patternHistory>>

\* C4: a frame that begins in menu, paused or gameOver leaves elapsed play
\* time, balloon, shield, obstacles, camera, score and the pattern
\* generator's state as they were, and so do pauseGame and resumeGame: a
\* resumed run continues from exactly the state held at the pause.
C4_FrozenWhileNotPlaying ==
    [][ (\/ lastOp' \in {"frame", "start"} /\ gameState # "playing"
         \/ lastOp' \in {"pauseGame", "resumeGame"})
        => UNCHANGED playVars ]_vars

C4_Witness ==
    /\ lastOp = "frame" /\ gameState = "paused"
    /\ gameTime > 0 /\ Len(obstacles) > 0

\* C5: no obstacle of the collection has active = false, after every physics
\* tick (the one that ends in gameOver too) and after every command.
C5_NoInactiveObstacle == \A k \in 1..Len(obstacles) : obstacles[k].active

C5_Witness == tickLog.ran /\ tickLog.inactive > 0

\* C6: the balloon's vertical speed is at most
\* min(160, 80 + 4 * elapsed play time of the run); a positive vyErr is a
\* velocity.y above the exact one, that is a lower speed.
C6_SpeedWithinLimit ==
    \/ Abs(balloon.vy) < maxSpeed(gameTime)
    \/ Abs(balloon.vy) = maxSpeed(gameTime) /\ balloon.vyErr >= 0

C6_Witness ==
    /\ gameState = "playing" /\ tickLog.ran
    /\ Abs(balloon.vy) > BALLOON_MAX_VELOCITY * VU

\* C7: the shield lies within the viewport by its current radius:
\* radius <= x <= width - radius, radius + cameraY <= y <= height + cameraY - radius.
C7_ShieldInBounds ==
    /\ ~shield.nan
    /\ shield.radius <= shield.x
    /\ shield.x <= canvasW - shield.radius
    /\ shield.radius + cameraY <= shield.y
    /\ shield.y <= canvasH + cameraY - shield.radius

C7_Witness ==
    /\ lastOp = "setShieldSize" /\ ~shield.nan
    /\ shield.x < shield.radius

\* C8: the pattern a spawn executes, drawn first or on the retry, has
\* minAltitude <= |spawnY| / 10; a spawn with no pattern unlocked executes
\* nothing and returns no obstacle.
C8_ExecutedIsUnlocked ==
    spawnLog.fired =>
        /\ spawnLog.name # "none" =>
               /\ spawnLog.minAltitude * 10 * PX <= Abs(spawnLog.spawnY)
               /\ spawnLog.name \in spawnLog.avail
        /\ spawnLog.avail = {} => spawnLog.name = "none" /\ spawned = << >>

C8_Witness ==
    /\ spawnLog.fired /\ spawnLog.retried
    /\ spawnLog.minAltitude > 0
    /\ spawnLog.avail # PatternNames

lastSame(trail, n, name) ==
    /\ Len(trail) >= n
    /\ \A k \in (Len(trail) - n + 1)..Len(trail) : trail[k] = name

\* C9: when the three patterns executed last (since the reset) have one name
\* and at least two other patterns are unlocked, the next pattern executed
\* has another name.
C9_FourthDiffers ==
    \A n \in PatternNames :
        ( /\ spawnLog.fired /\ spawnLog.name # "none"
          /\ lastSame(spawnLog.trailBefore, 3, n)
          /\ Cardinality(spawnLog.avail \ {n}) >= 2 )
        => spawnLog.name # n

C9_Witness ==
    /\ spawnLog.fired /\ spawnLog.retried
    /\ lastSame(spawnLog.trailBefore, 3, spawnLog.firstPick)
    /\ Cardinality(spawnLog.avail \ {spawnLog.firstPick}) >= 2
    /\ spawnLog.name # spawnLog.firstPick

\* C10: when the weighted draw picks the name of the two patterns executed
\* just before (since the reset) and another pattern is unlocked, the pattern
\* executed has another name.
C10_ThirdDiffers ==
    ( /\ spawnLog.fired /\ spawnLog.name # "none"
      /\ lastSame(spawnLog.trailBefore, 2, spawnLog.firstPick)
      /\ spawnLog.avail \ {spawnLog.firstPick} # {} )
    => spawnLog.name # spawnLog.firstPick

C10_Witness ==
    /\ spawnLog.fired
    /\ spawnLog.trailBefore = <<spawnLog.name, spawnLog.name>>
    /\ Cardinality(spawnLog.avail) >= 2

onShield(o) == o.x = shield.x /\ o.y = shield.y

\* C11: in a tick that does not end in gameOver, every active shard that
\* overlaps the shield, the shard whose centre is the shield's centre included,
\* is set inactive in that tick and is not in the collection after it.
C11_ShardsSingleUse ==
    (tickLog.ran /\ gameState # "gameOver") =>
        /\ tickLog.shardsKept = 0
        /\ \A k \in 1..Len(obstacles) :
               obstacles[k].type = "shard" => ~shieldTouches(shield, obstacles[k])

C11_Witness ==
    /\ tickLog.ran /\ gameState = "playing"
    /\ tickLog.shardsKept = 1
    /\ \E k \in 1..Len(obstacles) :
           obstacles[k].type = "shard" /\ obstacles[k].active /\ onShield(obstacles[k])

\* C12: the shield radius is the radius of the stored shield size (small 36,
\* normal 42, large 48): setShieldSize writes both, startGame and restartGame
\* write neither.
C12_RadiusOfSize ==
    /\ settings.shieldSize \in ShieldSizes
    /\ shield.radius = getShieldRadius(settings.shieldSize)
    /\ shield.radius = (CASE settings.shieldSize = "small" -> 36 * PX
                           [] settings.shieldSize = "normal" -> 42 * PX
                           [] settings.shieldSize = "large" -> 48 * PX)

C12_Witness ==
    /\ lastOp \in {"startGame", "restartGame"}
    /\ settings.shieldSize = "large"
    /\ shield.radius = 48 * PX

\* C13: after any setSensitivity calls with arbitrary numeric arguments the
\* stored sensitivity lies in [0.5, 1.5]: an argument above 1.5 is stored as
\* 1.5, one below 0.5 as 0.5, one inside the range as it is.
C13_SensitivityClamped ==
    /\ ~settings.sensitivity.nan
    /\ settings.sensitivity.v \in 5..15
    /\ lastOp = "setSensitivity" =>
           LET a == probe.sensitivity
           IN  /\ ~a.nan
               /\ settings.sensitivity.v =
                      (IF a.v > 15 THEN 15 ELSE IF a.v < 5 THEN 5 ELSE a.v)

C13_Witness ==
    /\ lastOp = "setSensitivity"
    /\ probe.sensitivity.nan
    /\ settings.sensitivity.nan

\* C14: the circle-circle test reports an overlap exactly when the squared
\* distance of the centres is at most the squared sum of the radii; at a
\* distance equal to the sum of the radii the result has penetration 0, at a
\* greater distance there is no result.
C14_CircleBoundary ==
    probe.op = "circleVsCircle" =>
        LET a == probe.args
            dsq == (a.x2 - a.x1) * (a.x2 - a.x1) + (a.y2 - a.y1) * (a.y2 - a.y1)
            sum == a.r1 + a.r2
        IN  /\ probe.result.hit <=> dsq <= sum * sum
            /\ dsq = sum * sum => probe.result.hit /\ probe.result.penetration = 0
            /\ dsq > sum * sum => probe.result = NoHit

C14_Witness ==
    /\ probe.op = "circleVsCircle"
    /\ probe.args.x2 = 3 /\ probe.args.y2 = -4 /\ probe.args.r1 + probe.args.r2 = 5
    /\ probe.result.hit /\ probe.result.penetration = 0

\* the circle's centre lies on the rectangle's boundary
onEdge(a) ==
    /\ a.ax <= a.cx /\ a.cx <= a.ax + a.aw
    /\ a.ay <= a.cy /\ a.cy <= a.ay + a.ah
    /\ a.cx \in {a.ax, a.ax + a.aw} \/ a.cy \in {a.ay, a.ay + a.ah}

\* C15: for a circle whose centre lies on an edge of the rectangle (corners
\* included) the circle-rectangle test returns a result with penetration equal
\* to the radius and an axis-aligned unit normal, perpendicular to an edge the
\* centre lies on and pointing out of the rectangle.
C15_CentreOnEdge ==
    (probe.op = "circleVsAABB" /\ onEdge(probe.args)) =>
        LET a == probe.args
            n == <<probe.result.nx, probe.result.ny>>
        IN  /\ probe.result.hit
            /\ probe.result.penetration = a.r
            /\ \/ n = <<-1000, 0>> /\ a.cx = a.ax
               \/ n = <<1000, 0>> /\ a.cx = a.ax + a.aw
               \/ n = <<0, -1000>> /\ a.cy = a.ay
               \/ n = <<0, 1000>> /\ a.cy = a.ay + a.ah

C15_Witness ==
    /\ probe.op = "circleVsAABB" /\ onEdge(probe.args)
    /\ probe.args.cy = probe.args.ah /\ probe.args.ah > 0
    /\ probe.args.cx > 0 /\ probe.args.cx < probe.args.aw
    /\ probe.args.r > 0
    /\ probe.result.ny = 1000 /\ probe.result.penetration = probe.args.r

\* the camera target of the balloon position the step leaves
targetAfter == balloon'.y - canvasH + 300 * PX

\* C16: within a run the camera offset never moves downward: a frame never
\* raises cameraY, changes it only when the balloon's target lies more than
\* the dead zone of 100 above it, and then sets it to target + 100.
C16_CameraOnlyUp ==
    [][ lastOp' = "frame" =>
          /\ cameraY' <= cameraY
          /\ cameraY' # cameraY <=> (tickLog'.ran /\ targetAfter < cameraY - 100 * PX)
          /\ cameraY' # cameraY => cameraY' = targetAfter + 100 * PX ]_vars

C16_Witness ==
    /\ lastOp = "frame" /\ tickLog.ran
    /\ cameraY < 0
    /\ cameraY = balloon.y - canvasH + 400 * PX

\* C17: after each physics tick the score is max(0, (height - balloon.y) / 10),
\* whatever the shield and the obstacles did in the tick, and no frame lowers
\* it.
C17_ScoreFollowsAltitude ==
    /\ [](tickLog.ran => score = Max(0, canvasH - balloon.y))
    /\ [][lastOp' = "frame" => score' >= score]_vars

C17_Witness ==
    /\ tickLog.ran /\ tickLog.shieldHits > 0
    /\ score > canvasH
    /\ score = canvasH - balloon.y

\* gameLoop's interpolation, accumulator / physicsStep, in 1/1000
interpolation == (accumulator * 1000) \div physicsStep

\* the clock time since the last frame that passed while playing
playedTime == probe.elapsed - probe.idle

\* C18: after every frame the accumulator lies in [0, physicsStep) and the
\* interpolation in [0, 1); a frame runs at most 30 physics ticks; and the
\* ticks of a frame account for no more clock time than the accumulator held
\* plus the time that passed while playing, so time that passed while not
\* playing is not replayed after startGame or resumeGame.
C18_NoIdleReplay ==
    /\ 0 <= accumulator /\ accumulator < physicsStep
    /\ 0 <= interpolation /\ interpolation < 1000
    /\ lastOp = "frame" =>
          /\ tickLog.ticks <= 30
          /\ tickLog.ticks * physicsStep <= probe.before + playedTime

\* a frame right after the switch to playing, run for a stall spent in the menu
\* or paused
C18_Witness ==
    /\ lastOp = "frame" /\ gameState = "playing"
    /\ probe.idle >= TU \div 4
    /\ tickLog.ticks = 30

\* the safe band of spawnBlockRain: minGap wide, centred on params.centerX
minGapOf(radius) == (radius * 24) \div 10 + 20 * PX

inSafeBand(x, centerX, radius) ==
    /\ x >= centerX - minGapOf(radius) \div 2
    /\ x <= centerX - minGapOf(radius) \div 2 + minGapOf(radius)

\* C19: whatever the viewport width, the shield radius and the draws, no
\* block of a block-rain formation is spawned with its x inside the centred
\* safe band of width 2.4 * shieldRadius + 20.
C19_SafeBandOpen ==
    (spawnLog.fired /\ spawnLog.name = "blockRain") =>
        \A k \in 1..Len(spawned) :
            ~inSafeBand(spawned[k].x, spawnLog.centerX, spawnLog.shieldRadius)

\* a block rain on the canvas 800 wide whose blocks all fell right of the band
C19_Witness ==
    /\ spawnLog.fired /\ spawnLog.name = "blockRain"
    /\ spawnLog.centerX = 400 * PX
    /\ Len(spawned) >= 2
    /\ \A k \in 1..Len(spawned) :
           /\ spawned[k].x > spawnLog.centerX
           /\ ~inSafeBand(spawned[k].x, spawnLog.centerX, spawnLog.shieldRadius)

\* C20: once stop() has returned, whatever start() calls came before it and
\* wherever it was called from, no frame callback runs (and so no physics
\* tick) until start() is called again.
C20_StopEndsFrames ==
    [][ stopped => lastOp' # "frame" ]_vars

\* stop() called between two frames with one loop running: nothing is pending
C20_Witness ==
    /\ lastOp = "stop" /\ stopped
    /\ animationId # 0
    /\ rafPending = {}

untouchedAfter == activeOnly(updateObstacles(obstacles, shield', cameraY) \o spawned')

\* C22: in a tick in which the balloon overlaps an active obstacle no shield
\* response is applied: the shield changes no obstacle, deactivates no shard,
\* and its last-hit time keeps its value.
C22_BalloonHitEndsTick ==
    [][ (lastOp' = "frame" /\ tickLog'.balloonHit) =>
          /\ tickLog'.ticks = 1
          /\ tickLog'.shieldHits = 0 /\ tickLog'.shardsHit = 0
          /\ shield'.lastHitTime = shield.lastHitTime
          /\ obstacles' = untouchedAfter ]_vars

\* the balloon is hit in a tick in which an obstacle overlaps the shield too
C22_Witness ==
    /\ lastOp = "frame" /\ tickLog.balloonHit
    /\ \E k \in 1..Len(obstacles) : shieldTouches(shield, obstacles[k])

\* the balloon overlaps an active obstacle of the collection the step leaves
overlapAfter ==
    \E k \in 1..Len(obstacles') :
        obstacles'[k].active /\ checkCollision(balloon', obstacles'[k]).hit

\* C23: the state becomes gameOver only in a frame's physics tick, run while
\* playing, in which the balloon overlaps an active obstacle; no command and
\* no frame without such an overlap makes it gameOver.
C23_GameOverOnlyByHit ==
    [][ (gameState' = "gameOver" /\ gameState # "gameOver") =>
          /\ lastOp' = "frame"
          /\ gameState = "playing"
          /\ tickLog'.ran
          /\ overlapAfter ]_vars

\* the frame that ended a run, after it had been paused and resumed
C23_Witness ==
    /\ lastOp = "frame" /\ prevState = "playing" /\ gameState = "gameOver"
    /\ calls.inputs = 1
    /\ \E k \in 1..Len(obstacles) : checkCollision(balloon, obstacles[k]).hit

\* C24: checkCollision(a, b) and checkCollision(b, a) agree on whether there
\* is an overlap, and when both return a result their normals are negations
\* of each other, for circular and rectangular objects and for coincident
\* centres.
C24_SwapInvertsNormal ==
    probe.op = "checkCollision" =>
        /\ probe.result.hit <=> probe.swapped.hit
        /\ (probe.result.hit /\ probe.swapped.hit) =>
               /\ probe.swapped.nx = -probe.result.nx
               /\ probe.swapped.ny = -probe.result.ny

\* two circles with distinct centres: the swap inverts the normal
C24_Witness ==
    /\ probe.op = "checkCollision"
    /\ probe.args.obj1.type = "shard" /\ probe.args.obj2.type = "shard"
    /\ probe.args.obj2.x = 2 /\ probe.args.obj2.y = 1
    /\ probe.result.hit /\ probe.swapped.hit
    /\ probe.result.nx > 0 /\ probe.swapped.nx = -probe.result.nx
    /\ probe.result.ny > 0 /\ probe.swapped.ny = -probe.result.ny

\* the shield target a keyboard tick resolves from the state before it
keyboardTarget ==
    clampTarget(<<shield.x + keyboardDelta(keys)[1], shield.y + keyboardDelta(keys)[2]>>,
                shield.radius, cameraY)

\* C25: in every tick in which at least one of W, A, S, D is held, opposing
\* pairs included, the shield target before the clamp is the shield position
\* plus the keyboard delta, whatever the pointer position.
C25_KeyboardOverridesPointer ==
    [][ (lastOp' = "frame" /\ tickLog'.ran /\ keys \cap MoveKeys # {}) =>
          <<shield'.tx, shield'.ty>> = keyboardTarget ]_vars

\* W and D held with the pointer in the far corner: the target is one
\* keyboard step up and to the right of the shield
C25_Witness ==
    /\ lastOp = "frame" /\ tickLog.ran /\ gameTime = physicsStep
    /\ keys = {"KeyW", "KeyD"}
    /\ mouse = [x |-> canvasW, y |-> canvasH]
    /\ shield.tx = canvasW \div 2 + (keyboardSpeed * PX) \div 120
    /\ shield.ty = canvasH - 150 * PX - (keyboardSpeed * PX) \div 120

\* C26: the shield target a physics tick resolves lies in
\* [radius, width - radius] x [radius + cameraY, height + cameraY - radius],
\* for the radius and the camera offset in force when it is resolved,
\* whatever the pointer, the held keys and the sensitivity.
C26_TargetInBounds ==
    [][ (lastOp' = "frame" /\ tickLog'.ran) =>
          /\ ~shield'.tnan
          /\ shield.radius <= shield'.tx /\ shield'.tx <= canvasW - shield.radius
          /\ shield.radius + cameraY <= shield'.ty
          /\ shield'.ty <= canvasH + cameraY - shield.radius ]_vars

\* the pointer in the far corner: the target is held back by the radius
C26_Witness ==
    /\ lastOp = "frame" /\ tickLog.ran
    /\ mouse = [x |-> canvasW, y |-> canvasH]
    /\ ~shield.tnan
    /\ shield.tx = canvasW - shield.radius /\ shield.ty = canvasH - shield.radius

\* max(0.55, 1.2 - 0.65 * min(1, t / 180)) s for the elapsed play time t
cooldownAt(t) ==
    Max(55 * ((TU * SU) \div 100),
        120 * ((TU * SU) \div 100) - 65 * Min(180 * TU, t))

\* the play time between the run's last spawn and the one the step makes
sinceSpawn == (gameTime' - spawnedAt) * SU

lastOf(seq, n) ==
    IF Len(seq) <= n THEN seq ELSE SubSeq(seq, Len(seq) - n + 1, Len(seq))

\* C28: the pattern history holds at most five names, and they are, in
\* order, the names of the patterns executed last since the last reset: all
\* of them up to five, the last five beyond.
C28_HistoryIsLastFive ==
    /\ Len(patternHistory) <= 5
    /\ patternHistory = lastOf(execTrail, 5)

\* more than five patterns executed in the run, not all of one name
C28_Witness ==
    /\ Len(execTrail) = 6 /\ Len(patternHistory) = 5
    /\ patternHistory[5] = execTrail[6]
    /\ execTrail[1] # execTrail[6]
    /\ \E k \in 1..4 : patternHistory[k] # patternHistory[k + 1]

\* blocks of the formation whose centre lies in column c (200 wide, 0..3)
inColumn(c) ==
    {k \in 1..Len(spawned) :
        spawned[k].x >= c * 200 * PX /\ spawned[k].x < (c + 1) * 200 * PX}

\* block k (centre +- half its width) reaches into column c, borders included
meetsColumn(k, c) ==
    /\ 2 * spawned[k].x + spawned[k].width >= 2 * c * 200 * PX
    /\ 2 * spawned[k].x - spawned[k].width <= 2 * (c + 1) * 200 * PX

freeColumns == {c \in 0..3 : \A k \in 1..Len(spawned) : ~meetsColumn(k, c)}

\* C29: whatever the draws, a grid-drop formation leaves exactly one of its
\* four 200-unit columns free of blocks (centre +- half width), and each of
\* the other three columns receives at least two blocks.
C29_OneColumnFree ==
    (spawnLog.fired /\ spawnLog.name = "gridDrop") =>
        /\ Cardinality(freeColumns) = 1
        /\ \A c \in (0..3) \ freeColumns : Cardinality(inColumn(c)) >= 2
        /\ \A k \in 1..Len(spawned) : \E c \in 0..3 : k \in inColumn(c)

\* an inner column left free, a column with two blocks and one with four
C29_Witness ==
    /\ spawnLog.fired /\ spawnLog.name = "gridDrop"
    /\ freeColumns = {1}
    /\ \E c \in 0..3 : Cardinality(inColumn(c)) = 2
    /\ \E c \in 0..3 : Cardinality(inColumn(c)) = 4

\* C30: a chicane formation is exactly one anchored block, the wall on the
\* left (x = 50) or the wall on the right (x = 750).
C30_OneWall ==
    (spawnLog.fired /\ spawnLog.name = "chicane") =>
        /\ Len(spawned) = 1
        /\ spawned[1].type = "block" /\ spawned[1].anchored
        /\ spawned[1].x \in {50 * PX, 750 * PX}
        /\ spawned[1].y = spawnLog.spawnY

\* a chicane whose wall is on the right
C30_Witness ==
    /\ spawnLog.fired /\ spawnLog.name = "chicane"
    /\ Len(spawned) = 1 /\ spawned[1].anchored
    /\ spawned[1].x = 750 * PX

\* the anchored spikes and blocks the shield has hit
restored == {k \in 1..Len(obstacles) : obstacles[k].hasOrig}

\* the velocity of obstacle o has no component away from its recorded
\* original position
towardOriginal(o) ==
    /\ Sign(o.vx) \in {0, Sign(o.ox - o.x)}
    /\ Sign(o.vy) \in {0, Sign(o.oy - o.y)}

\* C31: an anchored spike or block hit by the shield has a velocity that
\* points toward its recorded original position, and that position is the one
\* it was spawned at.
C31_RestoreToSpawn ==
    \A k \in restored :
        /\ towardOriginal(obstacles[k])
        /\ obstacles[k].ox = obstacles[k].sx
        /\ obstacles[k].oy = obstacles[k].sy

\* a wall hit by the shield in the tick just run
C31_Witness ==
    /\ lastOp = "frame" /\ tickLog.shieldHits > 0
    /\ \E k \in restored :
           /\ obstacles[k].type = "block" /\ obstacles[k].anchored
           /\ shieldTouches(shield, obstacles[k])

anchoredRotor(o) == o.type = "rotor" /\ o.anchored

\* the shield, as the tick leaves it, is in contact with rotor o and their
\* centres differ
rotorContact(o) ==
    /\ shieldTouches(shield', o)
    /\ ~(o.x = shield'.x /\ o.y = shield'.y)

\* the rotors of the collection after the tick keep the position and the
\* velocity they were spawned with, and the speed of each grew by 0.5 in
\* magnitude if hit(o) and stayed as it was if not, its sign never turned
rotorsAfterTick(hit(_)) ==
    \A k \in 1..Len(obstacles') :
        LET n == obstacles'[k]
        IN  anchoredRotor(n) =>
              /\ n.x = n.sx /\ n.y = n.sy /\ n.vx = 0 /\ n.vy = 0
              /\ \A j \in 1..Len(obstacles) :
                   LET o == obstacles[j]
                   IN  (anchoredRotor(o) /\ o.sx = n.sx /\ o.sy = n.sy) =>
                         /\ Abs(n.rotationSpeed) =
                                Abs(o.rotationSpeed) + (IF hit(o) THEN 500 ELSE 0)
                         /\ Sign(n.rotationSpeed) * Sign(o.rotationSpeed) >= 0

\* the contact counts in the ticks that do not end the run
spinContact(o) == ~tickLog'.balloonHit /\ rotorContact(o)

\* C32 as stated: an anchored rotor keeps the position and the velocity it was
\* spawned with, and every tick in which it is in contact with the shield
\* (centres apart) raises the magnitude of its rotation speed by 0.5 without
\* turning its sign.
C32_SpinsEveryContact ==
    [][ (lastOp' = "frame" /\ tickLog'.ran /\ tickLog'.ticks = 1) =>
          rotorsAfterTick(rotorContact) ]_vars

\* C32, amended: an anchored rotor keeps the position and the velocity it was
\* spawned with; every tick that does not end the run and in which it is in
\* contact with the shield (centres apart) raises the magnitude of its
\* rotation speed by 0.5 without turning its sign, and no other tick changes
\* the speed.
C32_RotorOnlySpins ==
    [][ (lastOp' = "frame" /\ tickLog'.ran /\ tickLog'.ticks = 1) =>
          rotorsAfterTick(spinContact) ]_vars

\* a rotor in contact with the shield for the second tick at least
C32_Witness ==
    /\ lastOp = "frame" /\ tickLog.shieldHits > 0
    /\ \E k \in 1..Len(obstacles) :
           /\ anchoredRotor(obstacles[k])
           /\ shieldTouches(shield, obstacles[k])
           /\ obstacles[k].x # shield.x
           /\ obstacles[k].rotationSpeed >= obstacles[k].spin + 1000

\* obstacle o is strictly inside the range of the shield's attraction
inPullRange(o) ==
    LET dsq == (shield.x - o.x) * (shield.x - o.x) + (shield.y - o.y) * (shield.y - o.y)
        near == shield.radius + o.radius + 10 * PX
    IN  dsq > near * near /\ dsq < (200 * PX) * (200 * PX)

\* C33: motion integration changes an obstacle's velocity by more than the
\* damping factor only if the obstacle is not anchored and its distance to the
\* shield is strictly between shieldRadius + obstacleRadius + 10 and 200; at
\* either end of the range, at distance zero and for anchored obstacles the
\* new velocity is the old one damped.
C33_PullOnlyInRange ==
    probe.op = "updateObstacles" =>
        LET o == probe.args.o
            n == probe.result
        IN  (n.vx # damp(o.vx) \/ n.vy # damp(o.vy)) =>
                ~o.anchored /\ inPullRange(o)

\* a shard at rest just inside the near end of the range is set in motion
C33_Witness ==
    /\ probe.op = "updateObstacles"
    /\ probe.args.o.type = "shard" /\ probe.args.o.vy = 0
    /\ probe.args.o.x = shield.x - 60 * PX - 1 /\ probe.args.o.y = shield.y
    /\ probe.result.vx > 0 /\ probe.result.vy = 0

\* obstacle o lies more than 200 below the bottom of the window of camera camY
belowMargin(o, camY) == o.y > camY + canvasH + 200 * PX

\* C34 as stated: after every physics tick no obstacle of the collection lies
\* more than 200 below the bottom of the window of the camera as the tick
\* leaves it.
C34_NoneBelowMargin ==
    (lastOp = "frame" /\ tickLog.ran) =>
        \A k \in 1..Len(obstacles) : ~belowMargin(obstacles[k], cameraY)

\* C34, amended: after every physics tick no obstacle of the collection lies
\* more than 200 below the bottom of the window of the camera as it was
\* before the tick.
C34_NoneBelowOldMargin ==
    [][ (lastOp' = "frame" /\ tickLog'.ran) =>
          \A k \in 1..Len(obstacles') : ~belowMargin(obstacles'[k], cameraY) ]_vars

\* a tick that culled an obstacle, in a run that has spawned no shard yet
\* (no lifetime can have expired)
C34_Witness ==
    /\ lastOp = "frame" /\ tickLog.inactive > 0
    /\ cameraY > -(1900 * PX)
    /\ gameState = "playing"

\* what tells two obstacles apart: the archetype and the place of creation
identity(o) == <<o.type, o.sx, o.sy>>

\* the obstacles the tick works on: the collection moved, then the formation
\* spawned in this tick, if any
candidates ==
    updateObstacles(obstacles, shield', cameraY)
    \o (IF tickLog'.spawned > 0 THEN spawned' ELSE << >>)

\* one of the three reasons to deactivate the moved obstacle m
mayDeactivate(m) ==
    \/ m.hasLife /\ m.lifeTime <= 0
    \/ belowMargin(m, cameraY)
    \/ m.type = "shard" /\ ~tickLog'.balloonHit /\ shieldTouches(shield', m)

countOf(seq, id) == Cardinality({k \in 1..Len(seq) : identity(seq[k]) = id})

noReason(m) == ~mayDeactivate(m)

\* C35: every obstacle of the collection is active; a tick adds to the
\* collection only what the pattern generator returned in it and removes only
\* obstacles whose lifetime ran out, that fell below the margin under the
\* camera, or that are shards touched by the shield; outside of ticks the
\* collection changes only by the reset of a run, which empties it.
C35_ObstacleLifecycle ==
    [][ /\ \A k \in 1..Len(obstacles') : obstacles'[k].active
        /\ (lastOp' = "frame" /\ tickLog'.ran /\ tickLog'.ticks = 1) =>
              \A cand \in {candidates} : \A kept \in {SelectSeq(cand, noReason)} :
                  \A id \in {identity(cand[k]) : k \in 1..Len(cand)}
                            \cup {identity(obstacles'[k]) : k \in 1..Len(obstacles')} :
                      /\ countOf(obstacles', id) <= countOf(cand, id)
                      /\ countOf(obstacles', id) >= countOf(kept, id)
        /\ ~(lastOp' = "frame" /\ tickLog'.ran) =>
              \/ obstacles' = obstacles
              \/ lastOp' \in {"startGame", "restartGame"} /\ obstacles' = << >>
      ]_vars

\* a tick that removed a shard touched by the shield and kept the others
C35_Witness ==
    /\ lastOp = "frame" /\ tickLog.shardsHit > 0 /\ tickLog.inactive > 0
    /\ gameState = "playing"
    /\ \E k \in 1..Len(obstacles) : obstacles[k].type = "shard"

\* how far v lies outside of the interval lo..hi
outside(v, lo, hi) == IF v < lo THEN lo - v ELSE IF v > hi THEN v - hi ELSE 0

\* the shapes of the call recorded in probe overlap or touch
shapesMeet ==
    LET a == probe.args
    IN  IF probe.op = "circleVsCircle"
        THEN (a.x2 - a.x1) * (a.x2 - a.x1) + (a.y2 - a.y1) * (a.y2 - a.y1)
                 <= (a.r1 + a.r2) * (a.r1 + a.r2)
        ELSE outside(a.cx, a.ax, a.ax + a.aw) * outside(a.cx, a.ax, a.ax + a.aw)
             + outside(a.cy, a.ay, a.ay + a.ah) * outside(a.cy, a.ay, a.ay + a.ah)
                 <= a.r * a.r

\* coincident centres, or the circle's centre inside or on the rectangle
degenerate ==
    LET a == probe.args
    IN  IF probe.op = "circleVsCircle"
        THEN a.x1 = a.x2 /\ a.y1 = a.y2
        ELSE outside(a.cx, a.ax, a.ax + a.aw) = 0 /\ outside(a.cy, a.ay, a.ay + a.ah) = 0

AxisNormals == {<<1000, 0>>, <<-1000, 0>>, <<0, 1000>>, <<0, -1000>>}

\* C36: both collision tests return a result exactly when the shapes overlap
\* or touch; a returned result has penetration >= 0; with coincident centres
\* the circle test returns the normal (1, 0), and with the centre inside or on
\* the rectangle the rectangle test returns an axis-aligned unit normal.
C36_ResultIffOverlap ==
    probe.op \in {"circleVsCircle", "circleVsAABB"} =>
        /\ probe.result.hit <=> shapesMeet
        /\ ~probe.result.hit => probe.result = NoHit
        /\ probe.result.hit => probe.result.penetration >= 0
        /\ degenerate =>
              /\ probe.result.hit
              /\ <<probe.result.nx, probe.result.ny>> \in AxisNormals
              /\ probe.op = "circleVsCircle" => probe.result.nx = 1000

\* a circle whose centre is strictly inside the rectangle, nearest to its top
C36_Witness ==
    /\ probe.op = "circleVsAABB"
    /\ probe.args.aw = 4 /\ probe.args.ah = 4
    /\ probe.args.cx = 2 /\ probe.args.cy = 1 /\ probe.args.r = 0
    /\ probe.result.hit /\ probe.result.penetration = 1
    /\ probe.result.ny = -1000

\* the shield, as the tick leaves it, overlaps an active obstacle of seq
shieldOverlaps(seq) == \E k \in 1..Len(seq) : shieldTouches(shield', seq[k])

\* the last-hit time after a tick: the tick's time if stamped(obstacles the
\* tick worked on), the time it had if not; the commands that start a run set
\* it to 0 and no other operation writes it
lastHitFollows(stamped(_)) ==
    /\ (lastOp' = "frame" /\ tickLog'.ran /\ tickLog'.ticks = 1) =>
          \A cand \in {candidates} :
              shield'.lastHitTime =
                  IF stamped(cand) THEN gameTime' ELSE shield.lastHitTime
    /\ lastOp' \in {"startGame", "restartGame"} => shield'.lastHitTime = 0
    /\ ~(lastOp' \in {"frame", "startGame", "restartGame"}) =>
          shield'.lastHitTime = shield.lastHitTime
    /\ shield'.lastHitTime <= gameTime'

\* C37 as stated: the last-hit time is 0 until the first contact of the run,
\* then the elapsed play time of the latest tick in which the shield
\* overlapped an active obstacle; it never exceeds the elapsed play time and
\* startGame/restartGame set it to 0.
C37_LastHitIsLastOverlap ==
    [][ lastHitFollows(shieldOverlaps) ]_vars

\* the overlaps of the ticks that do not end the run
overlapsInPlay(seq) == ~tickLog'.balloonHit /\ shieldOverlaps(seq)

\* C37, amended: the last-hit time is 0 until the first contact of the run,
\* then the elapsed play time of the latest tick that did not end the run and
\* in which the shield overlapped an active obstacle; it never exceeds the
\* elapsed play time and startGame/restartGame set it to 0.
C37_LastHitIsLastContact ==
    [][ lastHitFollows(overlapsInPlay) ]_vars

\* in the second run, a tick without contact after a tick with one
C37_Witness ==
    /\ lastOp = "frame" /\ tickLog.ran /\ tickLog.shieldHits = 0
    /\ calls.commands = 2
    /\ shield.lastHitTime > 0 /\ shield.lastHitTime < gameTime


\* the moved obstacle m is still active and overlaps the circle c
liveOverlap(c, m) == m.active /\ checkCollision(c, m).hit

\* C38: an obstacle that motion integration deactivated in a tick (lifetime
\* run out, or culled under the camera) takes part in no collision check of
\* that tick: the run ends in the tick only if an obstacle still active
\* overlaps the balloon, the shield's last-hit time is stamped in the tick only
\* if an obstacle still active overlaps the shield, and the deactivated
\* obstacle is gone from the collection after the tick.
C38_DeactivatedSkipCollisions ==
    [][ (lastOp' = "frame" /\ tickLog'.ran /\ tickLog'.ticks = 1) =>
            \A cand \in {candidates} :
                /\ (gameState = "playing" /\ gameState' = "gameOver") =>
                       \E k \in 1..Len(cand) : liveOverlap(balloon', cand[k])
                /\ (shield'.lastHitTime = gameTime' /\ ~shield'.nan) =>
                       \E k \in 1..Len(cand) : liveOverlap(shield', cand[k])
                /\ \A k \in 1..Len(cand) :
                       ~cand[k].active => countOf(obstacles', identity(cand[k])) = 0
      ]_vars

\* a tick in which a shard's lifetime ran out where the shield had just
\* arrived: no contact was handled and the run goes on
C38_Witness ==
    /\ lastOp = "frame" /\ tickLog.ran
    /\ tickLog.deadOverlaps > 0
    /\ tickLog.shieldHits = 0
    /\ shield.lastHitTime < gameTime
    /\ gameState = "playing"


\* C39 as stated: when state-changed('gameOver') is delivered, getScore()
\* returns the final score of the run, the value the engine holds at the end
\* of that terminal tick.
C39_GameOverScoreIsFinal ==
    (tickLog.balloonHit /\ gameOverNotes > 0) => tickLog.scoreSeen = score

\* a run ended: the listener of state-changed('gameOver') read a score below
\* the one the terminal tick then stored and reported
C39_Witness ==
    /\ lastOp = "frame" /\ gameState = "gameOver"
    /\ tickLog.balloonHit /\ gameOverNotes = 1 /\ scoreNotes > 0
    /\ tickLog.scoreSeen < score


\* C40 as stated: the sensitivity and the shield size chosen through the
\* settings panel are the ones in effect in the engine the component drives,
\* across game overs, new best scores and restarts, and the component's
\* mirrored game state equals the state of that engine.
C40_SettingsAndStateKept ==
    /\ settings.sensitivity = Num(host.sensitivity)
    /\ settings.shieldSize = host.shieldSize
    /\ shield.radius = getShieldRadius(host.shieldSize)
    /\ host.gameState = gameState

\* after a run that ended with a new best score, the retry is played by an
\* engine with the default shield although the panel chose the large one
C40_Witness ==
    /\ rafPending # {} /\ ~host.effectDue
    /\ calls.commands = 2 /\ lastOp = "frame" /\ tickLog.ran
    /\ host.bestScore > 0
    /\ host.gameState = "playing" /\ gameState = "playing"
    /\ host.shieldSize = "large" /\ settings.shieldSize = "normal"
    /\ shield.radius = getShieldRadius("normal")

=============================================================================
